---- MODULE Spec2Model ----
(***************************************************************************)
(* Span / line reconciliation engine of PPLX_Handeler.                     *)
(*                                                                         *)
(*   - PPLXHandler.get_span_type_length_angle_triples_for_spans_qc         *)
(*     (src/src/core/handler.py), the design-file span extractor;          *)
(*   - _ShapefileLayer.query (src/src/core/wire_spec_from_excel.py), the   *)
(*     nearest-line query of the shapefile spatial index;                  *)
(*   - build_spans_comparison_data (same file), the span-count reconciler. *)
(*                                                                         *)
(* Units.  Angles are integers in quarter degrees (FullTurn = 1440 is      *)
(* 2*pi), lengths are integers in half inches, planar coordinates are      *)
(* integers in layer units.  Squared distances are exact rationals         *)
(* <<numerator, denominator>>.  Floating-point rounding is not modelled.   *)
(* An optional value (Python None) is the empty sequence, a present value  *)
(* x is <<x>>.                                                             *)
(***************************************************************************)
EXTENDS Integers, Sequences, FiniteSets, TLC

VARIABLES
    phase,      \* which operation has run: "input", "extracted", "queried", ...
    file,       \* extractor: the design file tree (a sequence of top-level items)
    out,        \* extractor: the list the extractor returned
    layer,      \* query: the loaded _ShapefileLayer (points, records, rtree flag)
    qry,        \* query: the arguments of the last query and the index lookup's answer
    res,        \* query: the dict returned by the last query
    env,        \* reconciler: its arguments (conns, sections, design files, ...)
    run,        \* reconciler: its locals (position in conns, consumed_span_indices, rows)
    disk,       \* layer cache: the clock, the source shapefile and the .pkl next to it
    proc        \* layer cache: the running process (_layer_cache, its last _get_layer call)

vars == <<phase, file, out, layer, qry, res, env, run, disk, proc>>

----------------------------------------------------------------------------
(* Python values *)

None == <<>>

Some(x) == <<x>>

IsNone(a) == a = <<>>

Val(a) == a[1]

Abs(x) == IF x < 0 THEN -x ELSE x

Min2(a, b) == IF a <= b THEN a ELSE b

Max2(a, b) == IF a >= b THEN a ELSE b

\* 2*pi in quarter degrees
FullTurn == 1440

\* pi in quarter degrees
HalfTurn == 720

\* Python's float % (2*pi): the result has the sign of the divisor
NormAngle(a) == a % FullTurn

\* Python's round(): round half to even, of x / 2
RoundHalf(x) ==
    LET k == x \div 2
    IN  IF x % 2 = 0 THEN k
        ELSE IF k % 2 = 0 THEN k ELSE k + 1

\* round(math.degrees(angle) * 2) of an angle in quarter degrees
HalfDegBucket(a) == RoundHalf(a)

\* round(length) of a length in half inches
RoundLen(l) == RoundHalf(l)

\* str.lower() on the span types of the model
Lower(s) ==
    CASE s = "Primary" -> "primary"
      [] s = "Neutral" -> "neutral"
      [] s = "Secondary" -> "secondary"
      [] s = "CATV" -> "catv"
      [] s = "Catv" -> "catv"
      [] s = "Fiber" -> "fiber"
      [] s = "Telco" -> "telco"
      [] OTHER -> s

comm_types == {"catv", "fiber", "telco"}

----------------------------------------------------------------------------
(* Design-file span extractor: handler.py                                  *)
(*                                                                         *)
(* A design file is the sequence of its top-level items in document order. *)
(*   Insulator  [tag, angle, kids]   kids: Spans and SpanBundles           *)
(*   SpanBundle [tag, angle, kids]   kids: Spans                           *)
(*   Span       [tag, stype, len, angle]                                   *)
(* angle is the element's CoordinateA (optional), stype its SpanType ("" *)
(* when missing), len its SpanDistanceInInches (optional).  Every          *)
(* Insulator is below a WoodPole; a top-level SpanBundle has no Insulator  *)
(* ancestor.  An element's id is its path of positions.  Each emitted      *)
(* triple carries a ghost field src, the element that emitted it, which no *)
(* code reads.                                                             *)

\* _parse_span_attrs followed by "if not span_type or length is None"
SpanUsable(span) == span.stype # "" /\ ~IsNone(span.len)

RECURSIVE KidBundles(_, _, _)
\* the SpanBundles among kids[j..] of insulator i, in document order
KidBundles(i, kids, j) ==
    IF j > Len(kids) THEN <<>>
    ELSE (IF kids[j].tag = "SpanBundle"
          THEN <<[id |-> <<i, j>>, ins |-> Some(i), b |-> kids[j]]>>
          ELSE <<>>) \o KidBundles(i, kids, j + 1)

RECURSIVE AllBundles(_, _)
\* root.findall(".//SpanBundle") with each bundle's Insulator ancestor
AllBundles(f, i) ==
    IF i > Len(f) THEN <<>>
    ELSE (IF f[i].tag = "SpanBundle"
          THEN <<[id |-> <<i>>, ins |-> None, b |-> f[i]]>>
          ELSE KidBundles(i, f[i].kids, 1)) \o AllBundles(f, i + 1)

\* the bundle's absolute angle
BundleAbsoluteAngle(f, e) ==
    LET bundle_relative_angle == e.b.angle
    IN  IF ~IsNone(e.ins)
        THEN LET ins_angle == f[Val(e.ins)].angle
             IN  IF ~IsNone(ins_angle) /\ ~IsNone(bundle_relative_angle)
                 THEN Some(NormAngle(Val(ins_angle) + Val(bundle_relative_angle)))
                 ELSE IF ~IsNone(ins_angle)
                 THEN ins_angle
                 ELSE None
        ELSE IF ~IsNone(bundle_relative_angle)
        THEN Some(NormAngle(Val(bundle_relative_angle)))
        ELSE None

BundleChildStep_EveryChild(e, absolute_angle, k, st) ==
    LET span == e.b.kids[k]
    IN  IF ~SpanUsable(span) \/ Lower(span.stype) \notin comm_types THEN st
        ELSE [out |-> Append(st.out,
                             [stype |-> span.stype, len |-> Val(span.len),
                              angle |-> absolute_angle,
                              src |-> [pass |-> 1, id |-> e.id \o <<k>>]]),
              seen |-> st.seen \cup {Lower(span.stype)},
              marked |-> st.marked \cup {e.id \o <<k>>}]

\* one child span of a bundle in the first pass
BundleChildStep(e, absolute_angle, k, st) ==
    LET span == e.b.kids[k]
        key == Lower(span.stype)
    IN  IF ~SpanUsable(span) THEN st
        ELSE IF key \in comm_types
        THEN [out |-> IF key \notin st.seen
                      THEN Append(st.out,
                                  [stype |-> span.stype, len |-> Val(span.len),
                                   angle |-> absolute_angle,
                                   src |-> [pass |-> 1, id |-> e.id \o <<k>>]])
                      ELSE st.out,
              seen |-> st.seen \cup {key},
              marked |-> st.marked \cup {e.id \o <<k>>}]
        ELSE st

RECURSIVE BundleChildren(_, _, _, _)
BundleChildren(e, absolute_angle, k, st) ==
    IF k > Len(e.b.kids) THEN st
    ELSE BundleChildren(e, absolute_angle, k + 1,
                        BundleChildStep(e, absolute_angle, k, st))

RECURSIVE FirstPass(_, _, _, _)
\* first pass: one representative span per comm type of every SpanBundle;
\* st.marked is spans_in_comm_bundles, st.seen is seen_in_bundle
FirstPass(f, bundles, n, st) ==
    IF n > Len(bundles) THEN st
    ELSE LET e == bundles[n]
             done == BundleChildren(e, BundleAbsoluteAngle(f, e), 1,
                                    [st EXCEPT !.seen = {}])
         IN  FirstPass(f, bundles, n + 1, done)

RECURSIVE BundleSpans(_, _, _, _)
BundleSpans(i, j, kids, k) ==
    IF k > Len(kids) THEN <<>>
    ELSE <<[id |-> <<i, j, k>>, s |-> kids[k]]>> \o BundleSpans(i, j, kids, k + 1)

RECURSIVE InsulatorSpans(_, _, _)
\* insulator.findall(".//Span"): its own spans and those of its bundles
InsulatorSpans(i, kids, j) ==
    IF j > Len(kids) THEN <<>>
    ELSE (IF kids[j].tag = "Span"
          THEN <<[id |-> <<i, j>>, s |-> kids[j]]>>
          ELSE BundleSpans(i, j, kids[j].kids, 1)) \o InsulatorSpans(i, kids, j + 1)

\* the absolute angle of a span emitted one-to-one
SpanAbsoluteAngle(ins_angle, span_angle) ==
    IF ~IsNone(ins_angle) /\ ~IsNone(span_angle)
    THEN Some(NormAngle(Val(ins_angle) + Val(span_angle)))
    ELSE IF ~IsNone(ins_angle)
    THEN Some(NormAngle(Val(ins_angle)))
    ELSE IF ~IsNone(span_angle)
    THEN Some(NormAngle(Val(span_angle)))
    ELSE None

\* ins_base_bucket
InsBaseBucket(ins_angle) ==
    IF ~IsNone(ins_angle) THEN HalfDegBucket(Val(ins_angle)) ELSE 0

\* dedup_key
DedupKey(stype, len, angle) ==
    <<Lower(stype), RoundLen(len),
      IF ~IsNone(angle) THEN Some(HalfDegBucket(Val(angle))) ELSE None>>

IsArtifact_Never(seen_dedup, dedup_key, ins_base_bucket) == FALSE

\* "prev_base is not None and prev_base != ins_base_bucket"
IsArtifact(seen_dedup, dedup_key, ins_base_bucket) ==
    /\ dedup_key \in DOMAIN seen_dedup
    /\ seen_dedup[dedup_key] # ins_base_bucket

\* one span of an insulator in the second pass
SecondPassStep(ins_angle, marked, e, st) ==
    IF e.id \in marked THEN st
    ELSE IF ~SpanUsable(e.s) THEN st
    ELSE LET angle == SpanAbsoluteAngle(ins_angle, e.s.angle)
             dedup_key == DedupKey(e.s.stype, Val(e.s.len), angle)
             ins_base_bucket == InsBaseBucket(ins_angle)
         IN  IF IsArtifact(st.seen_dedup, dedup_key, ins_base_bucket) THEN st
             ELSE [out |-> Append(st.out,
                                  [stype |-> e.s.stype, len |-> Val(e.s.len),
                                   angle |-> angle,
                                   src |-> [pass |-> 2, id |-> e.id]]),
                   seen_dedup |-> IF dedup_key \in DOMAIN st.seen_dedup
                                  THEN st.seen_dedup
                                  ELSE (dedup_key :> ins_base_bucket) @@ st.seen_dedup]

RECURSIVE SecondPassSpans(_, _, _, _, _)
SecondPassSpans(ins_angle, marked, spans, n, st) ==
    IF n > Len(spans) THEN st
    ELSE SecondPassSpans(ins_angle, marked, spans, n + 1,
                         SecondPassStep(ins_angle, marked, spans[n], st))

RECURSIVE SecondPass(_, _, _, _)
\* second pass: every other span of every insulator, with the artifact dedup
SecondPass(f, marked, i, st) ==
    IF i > Len(f) THEN st
    ELSE IF f[i].tag # "Insulator" THEN SecondPass(f, marked, i + 1, st)
    ELSE SecondPass(f, marked, i + 1,
                    SecondPassSpans(f[i].angle, marked,
                                    InsulatorSpans(i, f[i].kids, 1), 1, st))

\* get_span_type_length_angle_triples_for_spans_qc of a parsed design file
ExtractTriples(f) ==
    LET p1 == FirstPass(f, AllBundles(f, 1), 1,
                        [out |-> <<>>, seen |-> {}, marked |-> {}])
        p2 == SecondPass(f, p1.marked, 1,
                         [out |-> p1.out, seen_dedup |-> <<>>])
    IN  p2.out

----------------------------------------------------------------------------
(* Shapefile spatial index: _ShapefileLayer.query, wire_spec_from_excel.py *)
(*                                                                         *)
(* Planar coordinates are integers in units of 250 layer units.  A layer   *)
(* is [points, records, rtree]: the polylines in load order, their         *)
(* attribute records (d_masterma, d_neutralm, d_orientat, d_runtype, all   *)
(* four fields present in the file), and whether the R-tree was built.     *)
(* The loaders skip shapes without points, so every polyline has one.      *)
(* Feature indices are Python's, from 0; feature i is points[i + 1].       *)

\* _SEARCH_MARGIN: 500 layer units
SEARCH_MARGIN == 2

\* float("inf") as a squared distance
Inf == <<1, 0>>

\* a < b on squared distances <<numerator, denominator>>
RatLess(a, b) == a[1] * b[2] < b[1] * a[2]

RatMin(a, b) == IF RatLess(b, a) THEN b ELSE a

RatMax(a, b) == IF RatLess(a, b) THEN b ELSE a

\* squared distance from (px, py) to the segment from a to b: t is clipped to
\* [0, 1], a degenerate segment projects to its start
SegDist2(px, py, a, b) ==
    LET dx == b[1] - a[1]
        dy == b[2] - a[2]
        len2 == dx * dx + dy * dy
        pa2 == (px - a[1]) * (px - a[1]) + (py - a[2]) * (py - a[2])
        pb2 == (px - b[1]) * (px - b[1]) + (py - b[2]) * (py - b[2])
        dot == (px - a[1]) * dx + (py - a[2]) * dy
    IN  IF len2 = 0 THEN <<pa2, 1>>
        ELSE IF dot <= 0 THEN <<pa2, 1>>
        ELSE IF dot >= len2 THEN <<pb2, 1>>
        ELSE <<pa2 * len2 - dot * dot, len2>>

\* _precompute_segments: the (start, end) pairs of one polyline
Segments(pts) ==
    IF Len(pts) < 2
    THEN [n \in 1..Len(pts) |-> <<pts[n], pts[n]>>]
    ELSE [n \in 1..(Len(pts) - 1) |-> <<pts[n], pts[n + 1]>>]

RECURSIVE MinSegDist2(_, _, _, _)
MinSegDist2(px, py, segs, n) ==
    IF n > Len(segs) THEN Inf
    ELSE RatMin(SegDist2(px, py, segs[n][1], segs[n][2]),
                MinSegDist2(px, py, segs, n + 1))

\* _np_point_to_segments_dist2
PointToSegmentsDist2(px, py, segs) ==
    IF Len(segs) = 0 THEN Inf ELSE MinSegDist2(px, py, segs, 1)

RECURSIVE MinCoord(_, _, _)
MinCoord(pts, c, n) ==
    IF n = Len(pts) THEN pts[n][c] ELSE Min2(pts[n][c], MinCoord(pts, c, n + 1))

RECURSIVE MaxCoord(_, _, _)
MaxCoord(pts, c, n) ==
    IF n = Len(pts) THEN pts[n][c] ELSE Max2(pts[n][c], MaxCoord(pts, c, n + 1))

\* the shape's bounding box [xmin, ymin, xmax, ymax]
BBox(pts) ==
    <<MinCoord(pts, 1, 1), MinCoord(pts, 2, 1), MaxCoord(pts, 1, 1), MaxCoord(pts, 2, 1)>>

\* a filter on the box of the two query points without the margin around it
BoxHits_NoMargin(L, x1, y1, x2, y2) ==
    {i \in 0..(Len(L.points) - 1) :
        LET b == BBox(L.points[i + 1])
        IN  b[3] >= Min2(x1, x2) /\ b[1] <= Max2(x1, x2)
            /\ b[4] >= Min2(y1, y2) /\ b[2] <= Max2(y1, y2)}

\* the features (from 0) whose bounding box meets the query box expanded by
\* the search margin
BoxHits(L, x1, y1, x2, y2) ==
    LET lo_x == Min2(x1, x2) - SEARCH_MARGIN
        lo_y == Min2(y1, y2) - SEARCH_MARGIN
        hi_x == Max2(x1, x2) + SEARCH_MARGIN
        hi_y == Max2(y1, y2) + SEARCH_MARGIN
    IN  {i \in 0..(Len(L.points) - 1) :
            LET b == BBox(L.points[i + 1])
            IN  b[3] >= lo_x /\ b[1] <= hi_x /\ b[4] >= lo_y /\ b[2] <= hi_y}

RECURSIVE Ascending(_)
\* np.where(mask)[0], np.arange: the indices in ascending order
Ascending(S) ==
    IF S = {} THEN <<>>
    ELSE LET m == CHOOSE x \in S : \A y \in S : x <= y
         IN  <<m>> \o Ascending(S \ {m})

\* every order in which an index lookup may yield the set S
Orders(S) ==
    {o \in [1..Cardinality(S) -> S] : \A a, b \in DOMAIN o : a # b => o[a] # o[b]}

\* mutant: no fallback scan when no bounding box is hit
WithFallback_NoScan(L, candidates) == candidates

\* "if len(candidates) == 0: candidates = np.arange(len(self.points))"
WithFallback(L, candidates) ==
    IF Len(candidates) = 0 THEN Ascending(0..(Len(L.points) - 1)) ELSE candidates

\* mutant: the score is the smaller of the two squared distances
FeatureScore_Min(d1_2, d2_2) == RatMin(d1_2, d2_2)

\* score = max(d1_2, d2_2)
FeatureScore(d1_2, d2_2) == RatMax(d1_2, d2_2)

\* "if score < best_score"
Improves(score, best_score) == RatLess(score, best_score)

\* one candidate of the scan; best is [i, score, d1_2, d2_2]
ScanStep(L, x1, y1, x2, y2, i, best) ==
    LET segs == Segments(L.points[i + 1])
        d1_2 == PointToSegmentsDist2(x1, y1, segs)
        d2_2 == PointToSegmentsDist2(x2, y2, segs)
        score == FeatureScore(d1_2, d2_2)
    IN  IF Improves(score, best.score)
        THEN [i |-> Some(i), score |-> score, d1_2 |-> d1_2, d2_2 |-> d2_2]
        ELSE best

RECURSIVE Scan(_, _, _, _, _, _, _, _)
Scan(L, x1, y1, x2, y2, candidates, n, best) ==
    IF n > Len(candidates) THEN best
    ELSE Scan(L, x1, y1, x2, y2, candidates, n + 1,
              ScanStep(L, x1, y1, x2, y2, candidates[n], best))

\* math.sqrt of a squared distance, in tenths of a unit, rounded down
SqrtTenths(q) ==
    CHOOSE r \in 0..200 : r * r * q[2] <= 100 * q[1] /\ 100 * q[1] < (r + 1) * (r + 1) * q[2]

\* "rec[idx] or None"
OrNone(v) == IF v = "" THEN None ELSE Some(v)

\* _build_result
BuildResult(L, best_i, best_d1_2, best_d2_2) ==
    IF IsNone(best_i)
    THEN [line_index |-> None, dist1_ft |-> None, dist2_ft |-> None,
          attrs |-> <<None, None, None, None>>]
    ELSE [line_index |-> best_i,
          dist1_ft |-> Some(SqrtTenths(best_d1_2)),
          dist2_ft |-> Some(SqrtTenths(best_d2_2)),
          attrs |-> [k \in 1..4 |-> OrNone(L.records[Val(best_i) + 1][k])]]

\* query, given the candidates the index lookup yielded
QueryResult(L, x1, y1, x2, y2, lookup) ==
    IF Len(L.points) = 0 THEN BuildResult(L, None, <<0, 1>>, <<0, 1>>)
    ELSE LET best == Scan(L, x1, y1, x2, y2, WithFallback(L, lookup), 1,
                          [i |-> None, score |-> Inf, d1_2 |-> <<0, 1>>, d2_2 |-> <<0, 1>>])
         IN  BuildResult(L, best.i, best.d1_2, best.d2_2)

----------------------------------------------------------------------------
(* Span-count reconciler: build_spans_comparison_data                      *)
(*                                                                         *)
(* A SCID is [lead, sfx]: its leading digits as a number (optional) and    *)
(* what follows them ("" for a purely numeric SCID such as "013", ".A" for *)
(* "013.A"); SCIDs are zero-padded to one width, so that string order is   *)
(* the order of (lead, sfx).  A Python dict of counts is a function on     *)
(* TypeKeys with 0 for an absent key: the code only ever stores positive   *)
(* counts.  Span distances are in feet, lengths in half inches.            *)

\* length_tolerance_in: 36 in
LENGTH_TOLERANCE_IN == 72

\* angle_tolerance_rad: math.radians(10)
ANGLE_TOLERANCE == 40

TypeKeys == {"anchor", "catv", "fiber", "neutral", "primary", "secondary", "telco"}

\* alphabetical rank of a lowercase type key (and of its title-cased form)
TypeRank(t) ==
    CASE t = "anchor" -> 1 [] t = "catv" -> 2 [] t = "fiber" -> 3
      [] t = "neutral" -> 4 [] t = "primary" -> 5 [] t = "secondary" -> 6
      [] t = "telco" -> 7 [] OTHER -> 8

\* str.title() of a type key
Title(t) ==
    CASE t = "anchor" -> "Anchor" [] t = "catv" -> "Catv" [] t = "fiber" -> "Fiber"
      [] t = "neutral" -> "Neutral" [] t = "primary" -> "Primary"
      [] t = "secondary" -> "Secondary" [] t = "telco" -> "Telco" [] OTHER -> t

\* (t or "").strip().lower() of a survey label
LabelKey(l) ==
    CASE l = "Primary" -> "primary" [] l = "CATV" -> "catv" [] l = "Fiber" -> "fiber"
      [] l = "Comcast" -> "comcast" [] l = "Guy" -> "guy" [] l = "Anchor" -> "anchor"
      [] l = " " -> "" [] OTHER -> l

ZeroCounts == [t \in TypeKeys |-> 0]

\* one POA label of a section row: unmapped labels pass through, labels
\* mapped to None are dropped
CountLabel(mapping, counts, label) ==
    LET poa_name == LabelKey(label)
    IN  IF poa_name = "" THEN counts
        ELSE IF poa_name \in DOMAIN mapping /\ IsNone(mapping[poa_name]) THEN counts
        ELSE LET key == IF poa_name \in DOMAIN mapping
                        THEN Val(mapping[poa_name]) ELSE poa_name
             IN  [counts EXCEPT ![key] = @ + 1]

RECURSIVE CountLabels(_, _, _)
\* "for t in poas", over the first n labels
CountLabels(mapping, poas, n) ==
    IF n = 0 THEN ZeroCounts
    ELSE CountLabel(mapping, CountLabels(mapping, poas, n - 1), poas[n])

RECURSIVE PoasOf(_, _, _)
\* the labels of the section rows of one connection, in sheet order
PoasOf(sections, cid, n) ==
    IF n > Len(sections) THEN <<>>
    ELSE (IF sections[n].connection_id = cid THEN sections[n].POAs ELSE <<>>)
         \o PoasOf(sections, cid, n + 1)

\* conn_id_to_poa_counts: connection id -> raw count per canonical type,
\* for the connection ids of the section rows that have one
PoaCounts(mapping, sections) ==
    [cid \in {sections[n].connection_id : n \in DOMAIN sections} \ {""} |->
       LET poas == PoasOf(sections, cid, 1)
       IN  CountLabels(mapping, poas, Len(poas))]

\* bearing_rad_from_lat_lon, for two points on one meridian or both on the
\* equator, where the spherical formula is exact (degrees between points)
Bearing(lat1, lon1, lat2, lon2) ==
    IF lon1 = lon2 THEN (IF lat2 >= lat1 THEN 0 ELSE HalfTurn)
    ELSE IF lon2 > lon1 THEN 360 ELSE 1080

\* the string order of the SCID suffixes of the model
SfxRank(x) == CASE x = "" -> 0 [] x = ".A" -> 1 [] x = ".B" -> 2 [] OTHER -> 3

\* _pole_order(a) <= _pole_order(b): (0, int) for a numeric SCID, else (1, str)
PoleOrderLE(a, b) ==
    LET ka == IF a.sfx = "" THEN 0 ELSE 1
        kb == IF b.sfx = "" THEN 0 ELSE 1
    IN  \/ ka < kb
        \/ ka = kb /\ Val(a.lead) < Val(b.lead)
        \/ ka = kb /\ Val(a.lead) = Val(b.lead) /\ SfxRank(a.sfx) <= SfxRank(b.sfx)

\* _base_pole_id: the SCID up to its first "."
BasePoleId(scid) == scid.lead

\* (scid.split() or [""])[0] is empty
BaseEmpty(scid) == IsNone(scid.lead) /\ scid.sfx = ""

\* leading_int
LeadingInt(scid) == scid.lead

\* the angle test of _count_and_consume, both angles available
AngleOk(angle, target_angle) ==
    LET d == Abs(angle - target_angle)
        angle_diff == IF d > HalfTurn THEN FullTurn - d ELSE d
    IN  angle_diff <= ANGLE_TOLERANCE

\* "abs(L - length_in) <= tol_in"
LengthOk(L, length_in, tol_in) == Abs(L - length_in) <= tol_in

\* a test that takes the right bearing for a match, whatever the length
Classify_AngleSuffices(t, length_in, tol_in, target_angle) ==
    LET stype_key == Lower(t.stype)
        length_ok == LengthOk(t.len, length_in, tol_in)
        use_angle == ~IsNone(target_angle) /\ ~IsNone(t.angle)
    IN  IF use_angle
        THEN (IF AngleOk(Val(t.angle), Val(target_angle)) THEN "match" ELSE "none")
        ELSE IF stype_key \notin comm_types
        THEN (IF length_ok THEN "match" ELSE "none")
        ELSE "none"

\* what one unconsumed triple contributes: "match", "angle_only" or "none"
Classify(t, length_in, tol_in, target_angle) ==
    LET stype_key == Lower(t.stype)
        length_ok == LengthOk(t.len, length_in, tol_in)
        use_angle == ~IsNone(target_angle) /\ ~IsNone(t.angle)
    IN  IF use_angle
        THEN LET angle_ok == AngleOk(Val(t.angle), Val(target_angle))
             IN  IF angle_ok /\ length_ok THEN "match"
                 ELSE IF angle_ok /\ ~length_ok THEN "angle_only"
                 ELSE "none"
        ELSE IF stype_key \notin comm_types
        THEN (IF length_ok THEN "match" ELSE "none")
        ELSE "none"

\* "if idx in consumed: continue"
Skipped(idx, consumed) == idx \in consumed

\* the spans a call to _count_and_consume looks at
Unconsumed(triples, consumed) == {i \in DOMAIN triples : ~Skipped(i, consumed)}

ConsumedAfter_Forget(consumed, matched) == consumed

\* "consumed.update(matched)"
ConsumedAfter(consumed, matched) == consumed \cup matched

\* _count_and_consume: counts per type, angle_only_types, and the consumed
\* set after the call
CountAndConsume(triples, consumed, length_in, tol_in, target_angle) ==
    LET open == Unconsumed(triples, consumed)
        matched == {i \in open :
                      Classify(triples[i], length_in, tol_in, target_angle) = "match"}
    IN  [counts |-> [t \in TypeKeys |->
                       Cardinality({i \in matched : Lower(triples[i].stype) = t})],
         angle_only_types |->
             {Lower(triples[i].stype) : i \in
                 {j \in open :
                    Classify(triples[j], length_in, tol_in, target_angle) = "angle_only"}},
         matched |-> matched,
         consumed |-> ConsumedAfter(consumed, matched)]

RECURSIVE InsertDesc(_, _, _)
\* t placed after every element of the sorted list whose count is not less
InsertDesc(sorted, t, raw_comm) ==
    IF sorted = <<>> THEN <<t>>
    ELSE IF raw_comm[Head(sorted)] >= raw_comm[t]
    THEN <<Head(sorted)>> \o InsertDesc(Tail(sorted), t, raw_comm)
    ELSE <<t>> \o sorted

RECURSIVE TypesSorted(_, _, _)
\* sorted(raw_comm.keys(), key=lambda t: raw_comm[t], reverse=True): a stable
\* sort of the keys, which come in the iteration order of the set comm_types
TypesSorted(keys, n, raw_comm) ==
    IF n = 0 THEN <<>>
    ELSE InsertDesc(TypesSorted(keys, n - 1, raw_comm), keys[n], raw_comm)

FirstRound_EveryType(types_sorted, n, st) ==
    [adj_comm |-> [t \in comm_types |-> 1],
     remaining |-> st.remaining - Cardinality(comm_types)]

RECURSIVE FirstRound(_, _, _)
\* "for t in types_sorted": one attachment for each type while any remain
FirstRound(types_sorted, n, st) ==
    IF n > Len(types_sorted) \/ st.remaining <= 0 THEN st
    ELSE FirstRound(types_sorted, n + 1,
                    [adj_comm |-> [st.adj_comm EXCEPT ![types_sorted[n]] = 1],
                     remaining |-> st.remaining - 1])

RoundRobin_Skip(types_sorted, raw_comm, idx, st) == st

RECURSIVE RoundRobin(_, _, _, _)
\* "while remaining > 0 and types_sorted"
RoundRobin(types_sorted, raw_comm, idx, st) ==
    IF st.remaining <= 0 \/ types_sorted = <<>> THEN st
    ELSE LET t == types_sorted[(idx % Len(types_sorted)) + 1]
             spare == raw_comm[t] - st.adj_comm[t]
         IN  RoundRobin(types_sorted, raw_comm, idx + 1,
                        IF spare > 0
                        THEN [adj_comm |-> [st.adj_comm EXCEPT ![t] = @ + 1],
                              remaining |-> st.remaining - 1]
                        ELSE st)

RECURSIVE SumOver(_, _)
SumOver(f, S) ==
    IF S = {} THEN 0
    ELSE LET x == CHOOSE y \in S : TRUE IN f[x] + SumOver(f, S \ {x})

RECURSIVE SelectSeq2(_, _, _)
\* the elements of a sequence that a function of flags keeps
SelectSeq2(seq, keep, n) ==
    IF n > Len(seq) THEN <<>>
    ELSE (IF keep[seq[n]] THEN <<seq[n]>> ELSE <<>>) \o SelectSeq2(seq, keep, n + 1)

\* the comm counts after the cap of the midspan-heights workbook; order is
\* the iteration order of comm_types
AdjustComm(katapult_counts, limit, order) ==
    LET raw_keys == SelectSeq2(order, [t \in comm_types |-> katapult_counts[t] > 0], 1)
        raw_comm == [t \in comm_types |-> katapult_counts[t]]
    IN  IF raw_keys = <<>> THEN katapult_counts
        ELSE IF IsNone(limit) THEN katapult_counts
        ELSE LET total_raw == SumOver(raw_comm, comm_types)
                 target == Min2(Val(limit), total_raw)
                 zero == [t \in comm_types |-> 0]
                 adj_comm ==
                     IF target <= 0 THEN zero
                     ELSE IF target = total_raw THEN raw_comm
                     ELSE LET types_sorted == TypesSorted(raw_keys, Len(raw_keys), raw_comm)
                              first == FirstRound(types_sorted, 1,
                                                  [adj_comm |-> zero, remaining |-> target])
                          IN  RoundRobin(types_sorted, raw_comm, 0, first).adj_comm
             IN  [t \in TypeKeys |->
                    IF t \in comm_types THEN adj_comm[t] ELSE katapult_counts[t]]

\* the verdict of one row
Verdict(k, p, span_type, angle_only_types) ==
    IF k = p THEN "PASS"
    ELSE IF k > p /\ span_type \in angle_only_types THEN "Length"
    ELSE "FAIL"

RECURSIVE SortedTypes(_)
\* sorted(all_types)
SortedTypes(S) ==
    IF S = {} THEN <<>>
    ELSE LET m == CHOOSE x \in S : \A y \in S : TypeRank(x) <= TypeRank(y)
         IN  <<m>> \o SortedTypes(S \ {m})

\* x < y for two values of leading_int, None being float("inf")
LeadLess(x, y) ==
    IF IsNone(x) THEN FALSE
    ELSE IF IsNone(y) THEN TRUE
    ELSE Val(x) < Val(y)

\* a key order under which rows of equal keys change places
RowKeyLE_Strict(r1, r2) ==
    LET a == <<LeadingInt(r1.Pole), LeadingInt(r1.To_Pole), TypeRank(Lower(r1.Span_Type))>>
        b == <<LeadingInt(r2.Pole), LeadingInt(r2.To_Pole), TypeRank(Lower(r2.Span_Type))>>
    IN  IF LeadLess(a[1], b[1]) THEN TRUE
        ELSE IF a[1] # b[1] THEN FALSE
        ELSE IF LeadLess(a[2], b[2]) THEN TRUE
        ELSE IF a[2] # b[2] THEN FALSE
        ELSE a[3] < b[3]

\* the key of rows.sort: key(r1) <= key(r2)
RowKeyLE(r1, r2) ==
    LET a == <<LeadingInt(r1.Pole), LeadingInt(r1.To_Pole), TypeRank(Lower(r1.Span_Type))>>
        b == <<LeadingInt(r2.Pole), LeadingInt(r2.To_Pole), TypeRank(Lower(r2.Span_Type))>>
    IN  IF LeadLess(a[1], b[1]) THEN TRUE
        ELSE IF a[1] # b[1] THEN FALSE
        ELSE IF LeadLess(a[2], b[2]) THEN TRUE
        ELSE IF a[2] # b[2] THEN FALSE
        ELSE a[3] <= b[3]

RECURSIVE InsertRow(_, _)
InsertRow(sorted, r) ==
    IF sorted = <<>> THEN <<r>>
    ELSE IF RowKeyLE(Head(sorted), r)
    THEN <<Head(sorted)>> \o InsertRow(Tail(sorted), r)
    ELSE <<r>> \o sorted

RECURSIVE SortRows(_, _)
\* rows.sort(key=...): stable
SortRows(rows, n) ==
    IF n = 0 THEN <<>>
    ELSE InsertRow(SortRows(rows, n - 1), rows[n])

\* _load_pplx_pairs: None for a file whose handler failed or has no root
LoadPplxPairs(entry) ==
    IF entry.broken THEN None ELSE Some(ExtractTriples(entry.tree))

\* the conditions under which the loop skips a connection
SkipConnection(c, nodes, conn_id_to_poa_counts) ==
    IF c.connection_id = "" \/ c.connection_id \notin DOMAIN conn_id_to_poa_counts
    THEN TRUE
    ELSE IF IsNone(c.span_distance) THEN TRUE
    ELSE IF Val(c.span_distance) <= 0 THEN TRUE
    ELSE IF c.node_id_1 \notin DOMAIN nodes \/ c.node_id_2 \notin DOMAIN nodes
    THEN TRUE
    ELSE BaseEmpty(nodes[c.node_id_1].scid) \/ BaseEmpty(nodes[c.node_id_2].scid)

ChoosePplx_Reversed(scid_to_pplx, pole, to_pole, pole_node, other_node) ==
    IF Val(BasePoleId(pole)) \in DOMAIN scid_to_pplx
    THEN [pplx_path |-> BasePoleId(pole), src |-> pole_node, dst |-> other_node]
    ELSE IF Val(BasePoleId(to_pole)) \in DOMAIN scid_to_pplx
    THEN [pplx_path |-> BasePoleId(to_pole), src |-> pole_node, dst |-> other_node]
    ELSE [pplx_path |-> None, src |-> pole_node, dst |-> other_node]

\* the design file of a connection and the end its bearing starts from:
\* the file of pole if there is one, else the file of to_pole
ChoosePplx(scid_to_pplx, pole, to_pole, pole_node, other_node) ==
    IF Val(BasePoleId(pole)) \in DOMAIN scid_to_pplx
    THEN [pplx_path |-> BasePoleId(pole), src |-> pole_node, dst |-> other_node]
    ELSE IF Val(BasePoleId(to_pole)) \in DOMAIN scid_to_pplx
    THEN [pplx_path |-> BasePoleId(to_pole), src |-> other_node, dst |-> pole_node]
    ELSE [pplx_path |-> None, src |-> pole_node, dst |-> other_node]

\* target_angle: the bearing from the design file's pole to the other pole;
\* bearing_rad_from_lat_lon raises on a coordinate that is a string, and the
\* exception leaves target_angle None
TargetAngle(sel) ==
    IF /\ ~IsNone(sel.pplx_path)
       /\ ~IsNone(sel.src.latitude) /\ ~IsNone(sel.src.longitude)
       /\ ~IsNone(sel.dst.latitude) /\ ~IsNone(sel.dst.longitude)
    THEN IF sel.src.as_text \/ sel.dst.as_text THEN None
         ELSE Some(Bearing(Val(sel.src.latitude), Val(sel.src.longitude),
                           Val(sel.dst.latitude), Val(sel.dst.longitude)))
    ELSE None

RECURSIVE TypeRows(_, _, _, _, _, _, _, _)
\* "for span_type in sorted(all_types)": one row per type; g is a ghost
\* field that no code reads
TypeRows(types, n, pole, to_pole, katapult_counts, pplx_counts, angle_only_types, g) ==
    IF n > Len(types) THEN <<>>
    ELSE LET span_type == types[n]
             k == katapult_counts[span_type]
             p == pplx_counts[span_type]
         IN  <<[Pole |-> pole, To_Pole |-> to_pole, Span_Type |-> Title(span_type),
                Katapult |-> k, PPLX |-> p,
                QC |-> Verdict(k, p, span_type, angle_only_types), g |-> g]>>
             \o TypeRows(types, n + 1, pole, to_pole, katapult_counts, pplx_counts,
                         angle_only_types, g)

\* one iteration of "for c in conns" for a connection that is not skipped:
\* the rows it appends and consumed_span_indices after it
ConnectionStep(e, ci, consumed_span_indices, order) ==
    LET c == e.conns[ci]
        n1 == e.nodes[c.node_id_1]
        n2 == e.nodes[c.node_id_2]
        s1 == n1.scid
        s2 == n2.scid
        swap == ~PoleOrderLE(s1, s2)
        pole == IF swap THEN s2 ELSE s1
        to_pole == IF swap THEN s1 ELSE s2
        key_pair == {s1, s2}
        limit == IF key_pair \in DOMAIN e.midspan_counts
                 THEN Some(e.midspan_counts[key_pair]) ELSE None
        katapult_counts ==
            AdjustComm(PoaCounts(e.span_type_mapping, e.sections)[c.connection_id],
                       limit, order)
        length_in == Val(c.span_distance) * 24
        pole_node == IF pole = s1 THEN n1 ELSE n2
        other_node == IF pole = s1 THEN n2 ELSE n1
        sel == ChoosePplx(e.scid_to_pplx, pole, to_pole, pole_node, other_node)
        target_angle == TargetAngle(sel)
        triples == IF IsNone(sel.pplx_path) THEN None
                   ELSE LoadPplxPairs(e.scid_to_pplx[Val(sel.pplx_path)])
        consumed == IF IsNone(triples) THEN {}
                    ELSE consumed_span_indices[Val(sel.pplx_path)]
        cc == IF IsNone(triples)
              THEN [counts |-> ZeroCounts, angle_only_types |-> {},
                    matched |-> {}, consumed |-> consumed]
              ELSE CountAndConsume(Val(triples), consumed, length_in,
                                   LENGTH_TOLERANCE_IN, target_angle)
        all_types == {t \in TypeKeys : katapult_counts[t] > 0 \/ cc.counts[t] > 0}
        g == [ci |-> ci, pplx_path |-> sel.pplx_path, loaded |-> ~IsNone(triples),
              before |-> consumed, matched |-> cc.matched,
              target_angle |-> target_angle, length_in |-> length_in]
    IN  [rows |-> TypeRows(SortedTypes(all_types), 1, pole, to_pole, katapult_counts,
                           cc.counts, cc.angle_only_types, g),
         consumed_span_indices |->
             IF IsNone(triples) THEN consumed_span_indices
             ELSE [consumed_span_indices EXCEPT ![Val(sel.pplx_path)] = cc.consumed]]

----------------------------------------------------------------------------
(* Inputs of the extractor *)

\* most insulators of a design file
MaxIns == 3

\* most child spans of a SpanBundle
MaxBundleKids == 2

\* span lengths in half inches: 120 in, and 120.5 in, which rounds to 120
SpanLen == CHOOSE l \in {240} : TRUE

SpanLenHalf == CHOOSE l \in {241} : TRUE

\* CoordinateA of an insulator: absent, 0, 0.25, 90, -90 and 450 degrees
InsAngles == {None, Some(0), Some(1), Some(360), Some(-360), Some(1800)}

\* CoordinateA of a span or bundle: absent, 0, 0.25 and 90 degrees
RelAngles == {None, Some(0), Some(1), Some(360)}

SeqsUpTo(S, n) == UNION {[1..m -> S] : m \in 0..n}

\* insulators that each carry one Primary span of the same length
PowerInsulators ==
    {[tag |-> "Insulator", angle |-> a,
      kids |-> <<[tag |-> "Span", stype |-> "Primary",
                  len |-> Some(SpanLen), angle |-> r]>>] :
        a \in {None, Some(0), Some(1), Some(360)}, r \in RelAngles}
    \cup {[tag |-> "Insulator", angle |-> Some(0),
           kids |-> <<[tag |-> "Span", stype |-> "Primary",
                       len |-> Some(SpanLenHalf), angle |-> Some(360)]>>]}

\* child spans of a bundle; their own angles (25 and 125 degrees) are no
\* bundle's absolute angle
BundleKids ==
    {[tag |-> "Span", stype |-> t, len |-> Some(SpanLen), angle |-> r] :
        t \in {"CATV", "Catv", "Fiber", "Primary"}, r \in {Some(100), Some(500)}}
    \cup {[tag |-> "Span", stype |-> "CATV", len |-> None, angle |-> None],
          [tag |-> "Span", stype |-> "", len |-> Some(SpanLen), angle |-> None]}

Bundles ==
    {[tag |-> "SpanBundle", angle |-> r, kids |-> ks] :
        r \in RelAngles, ks \in SeqsUpTo(BundleKids, MaxBundleKids)}

\* a design file: insulators with one power span each, or one bundle, below
\* an insulator or not
DesignFiles ==
    (SeqsUpTo(PowerInsulators, MaxIns) \ {<<>>})
    \cup {<<b>> : b \in Bundles}
    \cup {<<[tag |-> "Insulator", angle |-> a, kids |-> <<b>>]>> :
            a \in InsAngles, b \in Bundles}

NoLayer == [points |-> <<>>, records |-> <<>>, rtree |-> FALSE]

NoQuery == [x1 |-> 0, y1 |-> 0, x2 |-> 0, y2 |-> 0, order |-> <<>>]

NoResult == [line_index |-> None, dist1_ft |-> None, dist2_ft |-> None,
             attrs |-> <<None, None, None, None>>]

NoEnv == [nodes |-> <<>>, conns |-> <<>>, sections |-> <<>>, scid_to_pplx |-> <<>>,
          span_type_mapping |-> <<>>, midspan_counts |-> <<>>]

NoRun == [ci |-> 0, consumed_span_indices |-> <<>>, rows |-> <<>>]

NoDisk == [clock |-> 0]

NoProc == [layer_cache |-> None]

\* a parsed design file, before extraction
InitExtract ==
    /\ phase = "input"
    /\ file \in DesignFiles
    /\ out = <<>>
    /\ layer = NoLayer
    /\ qry = NoQuery
    /\ res = NoResult
    /\ env = NoEnv
    /\ run = NoRun
    /\ disk = NoDisk
    /\ proc = NoProc

\* handler.get_span_type_length_angle_triples_for_spans_qc()
Extract ==
    /\ phase = "input"
    /\ phase' = "extracted"
    /\ out' = ExtractTriples(file)
    /\ UNCHANGED <<file, layer, qry, res, env, run, disk, proc>>

NextExtract == Extract

SpecExtract == InitExtract /\ [][NextExtract]_vars

----------------------------------------------------------------------------
(* Inputs and operations of the spatial index *)

\* most features of a layer
MaxFeat == 2

\* polylines: two mirror images about y = 1, a single point, a far line, a
\* bent line
Polylines ==
    {<<<<0, 0>>, <<2, 0>>>>,
     <<<<0, 2>>, <<2, 2>>>>,
     <<<<1, 0>>>>,
     <<<<8, 8>>, <<9, 9>>>>,
     <<<<0, 1>>, <<1, 3>>, <<3, 3>>>>}

Features ==
    {[pts |-> p, rec |-> <<"336 AAC", "2 ACSR", "H", "OH">>] : p \in Polylines}
    \cup {[pts |-> <<<<0, 0>>, <<2, 0>>>>, rec |-> <<"", "", "", "">>]}

QueryPoints == {<<0, 1>>, <<2, 1>>, <<1, 3>>, <<6, 5>>}

\* a loaded layer, with or without R-tree (rtree installed or not; no R-tree
\* is built for a layer without features)
InitQuery ==
    /\ phase = "loaded"
    /\ \E fs \in SeqsUpTo(Features, MaxFeat) : \E rt \in BOOLEAN :
           layer = [points |-> [n \in DOMAIN fs |-> fs[n].pts],
                    records |-> [n \in DOMAIN fs |-> fs[n].rec],
                    rtree |-> rt /\ Len(fs) > 0]
    /\ qry = NoQuery
    /\ res = NoResult
    /\ file = <<>>
    /\ out = <<>>
    /\ env = NoEnv
    /\ run = NoRun
    /\ disk = NoDisk
    /\ proc = NoProc

\* query without R-tree, or when the R-tree lookup raises: the vectorized
\* bounding-box filter
QueryLinear ==
    /\ phase = "loaded"
    /\ \E p1, p2 \in QueryPoints :
           LET lookup == Ascending(BoxHits(layer, p1[1], p1[2], p2[1], p2[2]))
           IN  /\ qry' = [x1 |-> p1[1], y1 |-> p1[2], x2 |-> p2[1], y2 |-> p2[2],
                          order |-> lookup]
               /\ res' = QueryResult(layer, p1[1], p1[2], p2[1], p2[2], lookup)
    /\ phase' = "queried"
    /\ UNCHANGED <<file, out, layer, env, run, disk, proc>>

\* query with R-tree: intersection() yields the hits in an order of its own
QueryRTree ==
    /\ phase = "loaded"
    /\ layer.rtree
    /\ \E p1, p2 \in QueryPoints :
           \E lookup \in Orders(BoxHits(layer, p1[1], p1[2], p2[1], p2[2])) :
               /\ qry' = [x1 |-> p1[1], y1 |-> p1[2], x2 |-> p2[1], y2 |-> p2[2],
                          order |-> lookup]
               /\ res' = QueryResult(layer, p1[1], p1[2], p2[1], p2[2], lookup)
    /\ phase' = "queried"
    /\ UNCHANGED <<file, out, layer, env, run, disk, proc>>

NextQuery == QueryLinear \/ QueryRTree

RECURSIVE PolylineDist2(_, _, _, _)
\* "for (x1, y1), (x2, y2) in zip(points, points[1:])" of
\* point_to_polyline_dist2, from segment n on
PolylineDist2(px, py, points, n) ==
    IF n >= Len(points) THEN Inf
    ELSE RatMin(SegDist2(px, py, points[n], points[n + 1]),
                PolylineDist2(px, py, points, n + 1))

\* point_to_polyline_dist2 of the standalone module
PointToPolylineDist2(px, py, points) ==
    IF Len(points) = 0 THEN Inf
    ELSE IF Len(points) = 1
    THEN <<(px - points[1][1]) * (px - points[1][1])
           + (py - points[1][2]) * (py - points[1][2]), 1>>
    ELSE PolylineDist2(px, py, points, 1)

RECURSIVE BruteScan(_, _, _, _, _, _, _)
\* the loop of wire_spec_between_points over all shapes, from shape n on;
\* best is [i, score]
BruteScan(shapes, x1, y1, x2, y2, n, best) ==
    IF n > Len(shapes) THEN best
    ELSE LET pts == shapes[n]
             d1_2 == PointToPolylineDist2(x1, y1, pts)
             d2_2 == PointToPolylineDist2(x2, y2, pts)
             score == RatMax(d1_2, d2_2)
         IN  BruteScan(shapes, x1, y1, x2, y2, n + 1,
                       IF Len(pts) = 0 THEN best
                       ELSE IF RatLess(score, best.score)
                       THEN [i |-> Some(n - 1), score |-> score]
                       ELSE best)

\* wire_spec_between_points of the standalone module, run on the shapes of
\* the layer for the points of the query
BruteForce ==
    /\ phase = "queried"
    /\ phase' = "scanned"
    /\ run' = BruteScan(layer.points, qry.x1, qry.y1, qry.x2, qry.y2, 1,
                        [i |-> None, score |-> Inf])
    /\ UNCHANGED <<file, out, layer, qry, res, env, disk, proc>>

NextBoth == QueryLinear \/ QueryRTree \/ BruteForce

SpecBoth == InitQuery /\ [][NextBoth]_vars

SpecQuery == InitQuery /\ [][NextQuery]_vars

----------------------------------------------------------------------------
(* Inputs and steps of the reconciler *)

\* most connections of a workbook
MaxConns == 2

\* span lengths in half inches: 120 in and 192.5 in
Len120 == CHOOSE l \in {240} : TRUE

Len192 == CHOOSE l \in {385} : TRUE

Scid(n, suffix) == [lead |-> Some(n), sfx |-> suffix]

Node(s, lat, lon, text) ==
    [scid |-> s, latitude |-> Some(lat), longitude |-> Some(lon), as_text |-> text]

\* the Nodes sheet: poles 001, 002 (north of 001), 003 (east of 001), 004
\* (coordinates typed as text cells), a node without SCID, and 001.A (south
\* of 001); coordinates in degrees
Nodes ==
    [n \in {"n1", "n2", "n3", "n4", "n5", "n6"} |->
       CASE n = "n1" -> Node(Scid(1, ""), 0, 0, FALSE)
         [] n = "n2" -> Node(Scid(2, ""), 1, 0, FALSE)
         [] n = "n3" -> Node(Scid(3, ""), 0, 1, FALSE)
         [] n = "n4" -> Node(Scid(4, ""), 1, 0, TRUE)
         [] n = "n5" -> Node([lead |-> None, sfx |-> ""], 0, 0, FALSE)
         [] n = "n6" -> Node(Scid(1, ".A"), -1, 0, FALSE)]

Conn(id, a, b, d) ==
    [connection_id |-> id, node_id_1 |-> a, node_id_2 |-> b, span_distance |-> d]

\* rows of the Connections sheet: span distances of 10 ft and 13 ft, one
\* row to a node that is not in the Nodes sheet, one without span distance
ConnRows ==
    {Conn("cA", "n1", "n2", Some(10)), Conn("cB", "n2", "n1", Some(10)),
     Conn("cC", "n1", "n3", Some(10)), Conn("cD", "n1", "n4", Some(10)),
     Conn("cE", "n6", "n2", Some(13)), Conn("cF", "n1", "n9", Some(10)),
     Conn("cG", "n1", "n2", None)}

\* the connection ids in the row order of the Sections sheet
ConnIds == <<"cA", "cB", "cC", "cD", "cE", "cF", "cG">>

\* a Sections sheet with the same POA labels on every connection of ids
SectionsFor(ids, poas) == [n \in DOMAIN ids |-> [connection_id |-> ids[n], POAs |-> poas]]

\* Sections sheets: one Primary on every connection but cD; or two rows per
\* connection carrying six labels
SectionSheets ==
    {SectionsFor(SelectSeq(ConnIds, LAMBDA id : id # "cD"), <<"Primary">>),
     SectionsFor(ConnIds, <<"Primary", "CATV", "Comcast", "Guy">>)
       \o SectionsFor(ConnIds, <<"Fiber", "Fiber">>)}

\* span_type_mapping of the configuration: Comcast is CATV, guys are excluded
SpanTypeMapping == [t \in {"comcast", "guy"} |-> IF t = "comcast" THEN Some("catv") ELSE None]

PSpan(t, l, a) == [tag |-> "Span", stype |-> t, len |-> Some(l), angle |-> a]

Ins(a, ks) == [tag |-> "Insulator", angle |-> a, kids |-> ks]

Bundle(a, ks) == [tag |-> "SpanBundle", angle |-> a, kids |-> ks]

\* design files of pole 001: one Primary northward; two Primaries at 0 and
\* 355 degrees; a Primary and a CATV without any angle; a bundle without angle
\* of a CATV and a Fiber of 192.5 in under an insulator at 450 degrees; a Primary of 192.5 in northward
\* with a Neutral at 10 and a Secondary at 10.25 degrees; a bundle of CATV
\* and Fiber northward
Pole1Files ==
    {<<Ins(Some(0), <<PSpan("Primary", Len120, Some(0))>>)>>,
     <<Ins(Some(0), <<PSpan("Primary", Len120, Some(0))>>),
       Ins(Some(1420), <<PSpan("Primary", Len120, None)>>)>>,
     <<Ins(None, <<PSpan("Primary", Len120, None), PSpan("CATV", Len120, None)>>)>>,
     <<Ins(Some(1800), <<Bundle(None, <<PSpan("CATV", Len120, None),
                                        PSpan("Fiber", Len192, None)>>)>>)>>,
     <<Ins(Some(0), <<PSpan("Primary", Len192, Some(0)), PSpan("Neutral", Len120, Some(40)),
                      PSpan("Secondary", Len120, Some(41))>>)>>,
     <<Bundle(Some(0), <<PSpan("CATV", Len120, None), PSpan("Fiber", Len120, None)>>)>>}

\* the design file of pole 002: one Primary southward
Pole2File == <<Ins(Some(720), <<PSpan("Primary", Len120, None)>>)>>

Parsed(t) == [broken |-> FALSE, tree |-> t]

Unparsed == [broken |-> TRUE, tree |-> <<>>]

\* scid_to_pplx: the design files of the run by base pole id
PplxMaps ==
    {(1 :> Parsed(t)) : t \in Pole1Files}
    \cup {(2 :> Parsed(Pole2File)), (2 :> Unparsed), <<>>,
          (1 :> Unparsed) @@ (2 :> Parsed(Pole2File)),
          (1 :> Parsed(CHOOSE t \in Pole1Files : Len(t) = 2)) @@ (2 :> Parsed(Pole2File))}

\* midspan_counts: no workbook, or a cap of one attachment between 001 and 002
MidspanCounts == {<<>>, ({Scid(1, ""), Scid(2, "")} :> 1)}

\* iteration orders of the set comm_types
CommOrders == Orders(comm_types)

\* the arguments of one run of build_spans_comparison_data
InitRecon ==
    /\ phase = "start"
    /\ \E cs \in SeqsUpTo(ConnRows, MaxConns) : \E ss \in SectionSheets :
       \E fm \in PplxMaps : \E mc \in MidspanCounts :
           /\ env = [nodes |-> Nodes, conns |-> cs, sections |-> ss, scid_to_pplx |-> fm,
                     span_type_mapping |-> SpanTypeMapping, midspan_counts |-> mc]
           /\ run = [ci |-> 0, consumed_span_indices |-> [q \in DOMAIN fm |-> {}],
                     rows |-> <<>>]
    /\ file = <<>>
    /\ out = <<>>
    /\ layer = NoLayer
    /\ qry = NoQuery
    /\ res = NoResult
    /\ disk = NoDisk
    /\ proc = NoProc

\* "if not conns or not nodes: return []"
ReturnEmpty ==
    /\ phase = "start"
    /\ (env.conns = <<>> \/ env.sections = <<>>)
    /\ phase' = "done"
    /\ UNCHANGED <<file, out, layer, qry, res, env, run, disk, proc>>

\* the nested functions are defined: an interpreter that evaluates the
\* annotations of a def lazily
DefineHelpers ==
    /\ phase = "start"
    /\ env.conns # <<>> /\ env.sections # <<>>
    /\ phase' = "loop"
    /\ UNCHANGED <<file, out, layer, qry, res, env, run, disk, proc>>

\* the def of _count_and_consume raises NameError: typing.Set is not
\* imported, and an interpreter that evaluates annotations at the def fails
\* there; no row is returned
RaiseNameError ==
    /\ phase = "start"
    /\ env.conns # <<>> /\ env.sections # <<>>
    /\ phase' = "raised"
    /\ UNCHANGED <<file, out, layer, qry, res, env, run, disk, proc>>

\* a skip that leaves a row without counts behind
SkipStep_WithRow ==
    /\ phase = "loop"
    /\ run.ci < Len(env.conns)
    /\ SkipConnection(env.conns[run.ci + 1], env.nodes,
                      PoaCounts(env.span_type_mapping, env.sections))
    /\ run' = [run EXCEPT !.ci = @ + 1,
                          !.rows = @ \o <<[Pole |-> Scid(1, ""), To_Pole |-> Scid(1, ""),
                                           Span_Type |-> "Primary", Katapult |-> 0,
                                           PPLX |-> 0, QC |-> "PASS",
                                           g |-> [ci |-> run.ci + 1, pplx_path |-> None,
                                                  loaded |-> FALSE, before |-> {},
                                                  matched |-> {}, target_angle |-> None,
                                                  length_in |-> 0]]>>]
    /\ UNCHANGED <<phase, file, out, layer, qry, res, env, disk, proc>>

\* one iteration of "for c in conns", for a connection that is skipped
SkipStep ==
    /\ phase = "loop"
    /\ run.ci < Len(env.conns)
    /\ SkipConnection(env.conns[run.ci + 1], env.nodes,
                      PoaCounts(env.span_type_mapping, env.sections))
    /\ run' = [run EXCEPT !.ci = @ + 1]
    /\ UNCHANGED <<phase, file, out, layer, qry, res, env, disk, proc>>

\* one iteration of "for c in conns", for a connection that is compared
ProcessConnection ==
    /\ phase = "loop"
    /\ run.ci < Len(env.conns)
    /\ ~SkipConnection(env.conns[run.ci + 1], env.nodes,
                       PoaCounts(env.span_type_mapping, env.sections))
    /\ \E order \in CommOrders :
           LET step == ConnectionStep(env, run.ci + 1, run.consumed_span_indices, order)
           IN  run' = [ci |-> run.ci + 1,
                       consumed_span_indices |-> step.consumed_span_indices,
                       rows |-> run.rows \o step.rows]
    /\ UNCHANGED <<phase, file, out, layer, qry, res, env, disk, proc>>

\* after the loop: rows.sort and return
Finish ==
    /\ phase = "loop"
    /\ run.ci = Len(env.conns)
    /\ phase' = "done"
    /\ run' = [run EXCEPT !.rows = SortRows(run.rows, Len(run.rows))]
    /\ UNCHANGED <<file, out, layer, qry, res, env, disk, proc>>

NextRecon ==
    ReturnEmpty \/ DefineHelpers \/ RaiseNameError \/ SkipStep \/ ProcessConnection \/ Finish

SpecRecon == InitRecon /\ [][NextRecon]_vars

----------------------------------------------------------------------------
(* Layer cache: _get_layer, wire_spec_from_excel.py                        *)
(*                                                                         *)
(* disk is [clock, shp, pkl]: the time, the source shapefile [exists,      *)
(* mtime, ver] (ver counts its contents) and the optional cache file       *)
(* [mtime, kind, ver], whose kind is "layer" (a complete pickle of the     *)
(* layer loaded from contents ver), "truncated" (a pickle cut short) or    *)
(* "empty" (no bytes).  proc is one process: _layer_cache for the one path *)
(* of the model, and ghost fields that no code reads: next_id numbers the  *)
(* layer objects, first is the layer of the first successful call of the   *)
(* process, failed says that a write of the cache file failed in it, last  *)
(* describes the last call.                                                *)

\* most values of the clock, most changes of the source, most layer objects
MaxClock == 3

MaxVer == 2

MaxLoads == 3

CacheHit_Never(layer_cache) == FALSE

\* "if key in _layer_cache"
CacheHit(layer_cache) == ~IsNone(layer_cache)

\* "cache_path.exists() and shp_path.exists()" and "cache_mtime >= shp_mtime"
CacheFresh(d) ==
    /\ ~IsNone(d.pkl)
    /\ d.shp.exists
    /\ Val(d.pkl).mtime >= d.shp.mtime

\* _ShapefileLayer.from_cache on the cache file: the layer, or the exception
\* pickle.load raises (UnpicklingError for a pickle cut short, EOFError for
\* a file without bytes), or the OSError of a failed read
FromCache(pkl, read_error) ==
    IF read_error THEN "OSError"
    ELSE CASE pkl.kind = "layer" -> "layer"
           [] pkl.kind = "truncated" -> "PickleError"
           [] OTHER -> "EOFError"

\* "except (OSError, pickle.PickleError): pass"
CaughtOnRead(exc) == exc \in {"OSError", "PickleError"}

\* the cache file after the write: w is "ok", "denied" (mkdir or open
\* raises OSError, the file is as before), or "truncated" / "empty" (the file
\* was opened and the write raised OSError)
WriteCache(d, lyr, w) ==
    CASE w = "ok" -> Some([mtime |-> d.clock, kind |-> "layer", ver |-> lyr.ver])
      [] w = "denied" -> d.pkl
      [] OTHER -> Some([mtime |-> d.clock, kind |-> w, ver |-> 0])

OnWriteError_Raise(r) == [r EXCEPT !.outcome = "raised", !.layer = None]

\* "except OSError: pass"
OnWriteError(r) == r

\* the load from the .shp and the write of the disk cache; exc is the
\* exception the read of the cache file raised before it, "none" without one
LoadFromSource(d, p, reads, exc, w) ==
    IF ~d.shp.exists
    THEN [layer_cache |-> p.layer_cache, pkl |-> d.pkl, outcome |-> "raised",
          layer |-> None, reads |-> reads \cup {"shp"}, exc |-> exc, write |-> "none"]
    ELSE LET lyr == [id |-> p.next_id, ver |-> d.shp.ver]
             r == [layer_cache |-> Some(lyr), pkl |-> WriteCache(d, lyr, w),
                   outcome |-> "source", layer |-> Some(lyr),
                   reads |-> reads \cup {"shp"}, exc |-> exc, write |-> w]
         IN  IF w = "ok" THEN r ELSE OnWriteError(r)

\* _get_layer: what it returns or raises, _layer_cache and the cache file
\* after it, and what it read
GetLayerCall(d, p, read_error, w) ==
    IF CacheHit(p.layer_cache)
    THEN [layer_cache |-> p.layer_cache, pkl |-> d.pkl, outcome |-> "mem",
          layer |-> p.layer_cache, reads |-> {}, exc |-> "none", write |-> "none"]
    ELSE IF CacheFresh(d)
    THEN LET got == FromCache(Val(d.pkl), read_error)
         IN  IF got = "layer"
             THEN LET lyr == [id |-> p.next_id, ver |-> Val(d.pkl).ver]
                  IN  [layer_cache |-> Some(lyr), pkl |-> d.pkl, outcome |-> "disk",
                       layer |-> Some(lyr), reads |-> {"pkl"}, exc |-> "none",
                       write |-> "none"]
             ELSE IF CaughtOnRead(got)
             THEN LoadFromSource(d, p, {"pkl"}, got, w)
             ELSE [layer_cache |-> p.layer_cache, pkl |-> d.pkl, outcome |-> "raised",
                   layer |-> None, reads |-> {"pkl"}, exc |-> got, write |-> "none"]
    ELSE LoadFromSource(d, p, {}, "none", w)

NoCall == [outcome |-> "none", layer |-> None, reads |-> {}, exc |-> "none",
           write |-> "none", warm |-> FALSE, fresh |-> FALSE, kind |-> "none",
           source |-> FALSE]

NewProcess(id) ==
    [layer_cache |-> None, next_id |-> id, first |-> None, failed |-> FALSE,
     last |-> NoCall]

\* the first run: a source shapefile and no cache file
InitCache ==
    /\ phase = "cache"
    /\ disk = [clock |-> 0, shp |-> [exists |-> TRUE, mtime |-> 0, ver |-> 0],
               pkl |-> None]
    /\ proc = NewProcess(1)
    /\ file = <<>>
    /\ out = <<>>
    /\ layer = NoLayer
    /\ qry = NoQuery
    /\ res = NoResult
    /\ env = NoEnv
    /\ run = NoRun

\* one call of _get_layer for the path
GetLayer ==
    /\ proc.next_id <= MaxLoads
    /\ \E read_error \in BOOLEAN : \E w \in {"ok", "denied", "truncated", "empty"} :
           LET r == GetLayerCall(disk, proc, read_error, w)
           IN  /\ disk' = [disk EXCEPT !.pkl = r.pkl]
               /\ proc' = [layer_cache |-> r.layer_cache,
                           next_id |-> IF r.outcome \in {"disk", "source"}
                                       THEN proc.next_id + 1 ELSE proc.next_id,
                           first |-> IF IsNone(proc.first) THEN r.layer ELSE proc.first,
                           failed |-> proc.failed
                                        \/ r.write \in {"denied", "truncated", "empty"},
                           last |-> [outcome |-> r.outcome, layer |-> r.layer,
                                     reads |-> r.reads, exc |-> r.exc,
                                     write |-> r.write,
                                     warm |-> ~IsNone(proc.first),
                                     fresh |-> CacheFresh(disk),
                                     kind |-> IF IsNone(disk.pkl) THEN "none"
                                              ELSE Val(disk.pkl).kind,
                                     source |-> disk.shp.exists]]
    /\ UNCHANGED <<phase, file, out, layer, qry, res, env, run>>

\* the process ends and the next run starts with an empty _layer_cache
Restart ==
    /\ proc.last.outcome # "none"
    /\ proc' = NewProcess(proc.next_id)
    /\ UNCHANGED <<phase, file, out, layer, qry, res, env, run, disk>>

\* time passes
Tick ==
    /\ disk.clock < MaxClock
    /\ disk' = [disk EXCEPT !.clock = @ + 1]
    /\ UNCHANGED <<phase, file, out, layer, qry, res, env, run, proc>>

\* somebody replaces the source shapefile
ChangeSource ==
    /\ disk.shp.ver < MaxVer
    /\ disk' = [disk EXCEPT !.shp = [exists |-> TRUE, mtime |-> disk.clock,
                                     ver |-> disk.shp.ver + 1]]
    /\ UNCHANGED <<phase, file, out, layer, qry, res, env, run, proc>>

\* somebody removes the source shapefile
RemoveSource ==
    /\ disk.shp.exists
    /\ disk' = [disk EXCEPT !.shp.exists = FALSE]
    /\ UNCHANGED <<phase, file, out, layer, qry, res, env, run, proc>>

\* somebody removes the cache file
RemoveCache ==
    /\ ~IsNone(disk.pkl)
    /\ disk' = [disk EXCEPT !.pkl = None]
    /\ UNCHANGED <<phase, file, out, layer, qry, res, env, run, proc>>

NextCache == GetLayer \/ Restart \/ Tick \/ ChangeSource \/ RemoveSource \/ RemoveCache

SpecCache == InitCache /\ [][NextCache]_vars

----------------------------------------------------------------------------
(* The cap of the comm counts, on its own: build_spans_comparison_data,    *)
(* lines 1074-1113.  env holds the survey counts of one connection, the    *)
(* bound of the midspan-heights workbook for its pole pair (None without   *)
(* one) and the iteration order of comm_types; run holds the counts after  *)
(* the adjustment.                                                         *)

\* most attachments of one comm type, largest bound of the workbook
MaxCount == 3

MaxLimit == 4

\* survey counts: conn_id_to_poa_counts[conn_id], 0 for a type without a key
KatapultCounts ==
    {[t \in TypeKeys |-> IF t \in comm_types THEN c[t] ELSE o[t]] :
        c \in [comm_types -> 0..MaxCount], o \in [TypeKeys \ comm_types -> 0..1]}

\* midspan_counts.get(key_pair): load_midspan_heights_counts counts from 1
Limits == {None} \cup {Some(n) : n \in 1..MaxLimit}

InitAdjust ==
    /\ phase = "adjust"
    /\ \E k \in KatapultCounts : \E limit \in Limits : \E order \in CommOrders :
           env = [katapult_counts |-> k, limit |-> limit, order |-> order]
    /\ run = [adjusted |-> None]
    /\ file = <<>>
    /\ out = <<>>
    /\ layer = NoLayer
    /\ qry = NoQuery
    /\ res = NoResult
    /\ disk = NoDisk
    /\ proc = NoProc

\* the adjustment of one connection's counts
Adjust ==
    /\ phase = "adjust"
    /\ IsNone(run.adjusted)
    /\ run' = [adjusted |-> Some(AdjustComm(env.katapult_counts, env.limit, env.order))]
    /\ UNCHANGED <<phase, file, out, layer, qry, res, env, disk, proc>>

NextAdjust == Adjust

SpecAdjust == InitAdjust /\ [][NextAdjust]_vars

----------------------------------------------------------------------------
(* The Sections sheet: _extract_sections_from_sheet and the count of the   *)
(* labels in build_spans_comparison_data.  env holds the rows of the sheet *)
(* below its header, each with a connection id and the cells of the POA    *)
(* columns from POA_1 on (None an empty cell); run holds the survey counts *)
(* of the sheet, and after a row was added the counts before it and the    *)
(* row.                                                                    *)

\* most rows of the sheet at the start, number of POA columns
MaxRows == 2

MaxPoaCols == 2

\* "if v is not None and str(v).strip(): poas.append(str(v).strip())"
RECURSIVE RowPoas(_, _)
RowPoas(cells, n) ==
    IF n = 0 THEN <<>>
    ELSE RowPoas(cells, n - 1)
         \o (IF IsNone(cells[n]) THEN <<>> ELSE <<Val(cells[n])>>)

\* key = (conn_id_str, poas_tuple)
SectionKey(row) == <<row.connection_id, RowPoas(row.cells, Len(row.cells))>>

RECURSIVE ExtractSections(_, _)
\* _extract_sections_from_sheet over the first n rows: a row whose key was
\* seen is skipped
ExtractSections(rows, n) ==
    IF n = 0 THEN <<>>
    ELSE LET kept == ExtractSections(rows, n - 1)
             key == SectionKey(rows[n])
             seen == {<<kept[k].connection_id, kept[k].POAs>> : k \in DOMAIN kept}
         IN  IF key \in seen THEN kept
             ELSE Append(kept, [connection_id |-> key[1], POAs |-> key[2]])

\* the survey counts of a sheet
SheetCounts(mapping, rows) == PoaCounts(mapping, ExtractSections(rows, Len(rows)))

SheetRows ==
    {[connection_id |-> cid, cells |-> cells] :
        cid \in {"cA", "cB"},
        cells \in [1..MaxPoaCols -> {None, Some("Primary"), Some("CATV")}]}

InitSections ==
    /\ phase = "sections"
    /\ \E rows \in SeqsUpTo(SheetRows, MaxRows) :
           env = [rows |-> rows, span_type_mapping |-> SpanTypeMapping]
    /\ run = [counts |-> None, before |-> None, added |-> None]
    /\ file = <<>>
    /\ out = <<>>
    /\ layer = NoLayer
    /\ qry = NoQuery
    /\ res = NoResult
    /\ disk = NoDisk
    /\ proc = NoProc

\* the sheet is loaded and its labels are counted
CountSheet ==
    /\ phase = "sections"
    /\ IsNone(run.counts)
    /\ run' = [run EXCEPT !.counts = Some(SheetCounts(env.span_type_mapping, env.rows))]
    /\ UNCHANGED <<phase, file, out, layer, qry, res, env, disk, proc>>

\* a row with the connection id and the labels of row i, its cells in the
\* column order p, is added to the sheet, and the sheet is loaded and counted
\* again
AddRow ==
    /\ phase = "sections"
    /\ ~IsNone(run.counts)
    /\ IsNone(run.before)
    /\ \E i \in DOMAIN env.rows : \E p \in Orders(1..MaxPoaCols) :
           LET row == [connection_id |-> env.rows[i].connection_id,
                       cells |-> [k \in 1..MaxPoaCols |-> env.rows[i].cells[p[k]]]]
               rows == Append(env.rows, row)
           IN  /\ env' = [env EXCEPT !.rows = rows]
               /\ run' = [counts |-> Some(SheetCounts(env.span_type_mapping, rows)),
                          before |-> run.counts,
                          added |-> Some([of |-> i, row |-> row])]
    /\ UNCHANGED <<phase, file, out, layer, qry, res, disk, proc>>

NextSections == CountSheet \/ AddRow

SpecSections == InitSections /\ [][NextSections]_vars

----------------------------------------------------------------------------
(* The wire-spec comparator: build_wire_spec_comparison.  env holds the     *)
(* nodes, the connections, scid_to_pplx with each design file as the        *)
(* sequence of its Span elements in document order, and the values the      *)
(* shapefile layers return; run holds the index of the last connection, the *)
(* rows, and a log that no code reads: for each connection that reached the *)
(* design values, the file consulted and the three values.  Lengths are in  *)
(* half inches.                                                            *)

\* LEN_TOLERANCE = 0.15, in hundredths
LEN_TOLERANCE == 15

WireTypes == <<"Primary", "Neutral", "Secondary">>

_REF_ALLOWED_NODE_TYPES == {"pole", "reference", "drop pole"}

\* s1 = (scid1 or base1) or "REF"
RefScid(scid) == IF BaseEmpty(scid) THEN [lead |-> None, sfx |-> "REF"] ELSE scid

\* pole_pair: the two SCIDs in the order of _pole_order
PolePair(s1, s2) == IF PoleOrderLE(s1, s2) THEN <<s1, s2>> ELSE <<s2, s1>>

PoleFile_SkipBroken(scid_to_pplx, base1, base2) ==
    IF base1 \in DOMAIN scid_to_pplx /\ ~scid_to_pplx[base1].broken THEN Some(base1)
    ELSE IF base2 \in DOMAIN scid_to_pplx THEN Some(base2)
    ELSE IF base1 \in DOMAIN scid_to_pplx THEN Some(base1)
    ELSE None

\* pplx_path = scid_to_pplx.get(base1) or scid_to_pplx.get(base2)
PoleFile(scid_to_pplx, base1, base2) ==
    IF base1 \in DOMAIN scid_to_pplx THEN Some(base1)
    ELSE IF base2 \in DOMAIN scid_to_pplx THEN Some(base2)
    ELSE None

RECURSIVE LengthsOf(_, _, _)
\* get_spans_by_type_and_length()[stype] over the first n spans: the lengths
\* in the order they were first seen, each with the first conductor seen
LengthsOf(spans, stype, n) ==
    IF n = 0 THEN <<>>
    ELSE LET prev == LengthsOf(spans, stype, n - 1)
             sp == spans[n]
         IN  IF sp.stype = stype /\ ~IsNone(sp.len)
                /\ \A k \in DOMAIN prev : prev[k].len # Val(sp.len)
             THEN Append(prev, [len |-> Val(sp.len),
                                conductor |-> IF IsNone(sp.conductor) THEN ""
                                              ELSE Val(sp.conductor)])
             ELSE prev

WithinTolerance_Twice(ln, span_in) ==
    100 * Abs(ln - span_in) <= 2 * LEN_TOLERANCE * Max2(span_in, 2)

\* abs(ln - span_in) / max(span_in, 1) <= LEN_TOLERANCE
WithinTolerance(ln, span_in) ==
    100 * Abs(ln - span_in) <= LEN_TOLERANCE * Max2(span_in, 2)

RECURSIVE BestLen(_, _, _)
\* "for ln in lengths": the first length within tolerance that no later one
\* beats
BestLen(lengths, span_in, n) ==
    IF n = 0 THEN None
    ELSE LET best_len == BestLen(lengths, span_in, n - 1)
             ln == lengths[n].len
         IN  IF WithinTolerance(ln, span_in)
                /\ (IsNone(best_len)
                    \/ Abs(ln - span_in) < Abs(Val(best_len) - span_in))
             THEN Some(ln) ELSE best_len

\* lengths.get(ln, "")
ConductorAt(lengths, ln) ==
    LET k == CHOOSE k \in DOMAIN lengths : lengths[k].len = ln
    IN  lengths[k].conductor

RECURSIVE MinLen(_, _)
\* min(by_type[stype])
MinLen(lengths, n) ==
    IF n = 1 THEN lengths[1].len ELSE Min2(MinLen(lengths, n - 1), lengths[n].len)

\* pplx_vals[stype] of a connection that consults a design file
PplxVal(entry, stype, span_in) ==
    IF entry.broken THEN ""
    ELSE LET lengths == LengthsOf(entry.tree, stype, Len(entry.tree))
         IN  IF ~IsNone(span_in)
             THEN LET best_len == BestLen(lengths, Val(span_in), Len(lengths))
                  IN  IF IsNone(best_len) THEN ""
                      ELSE ConductorAt(lengths, Val(best_len))
             ELSE IF lengths = <<>> THEN ""
             ELSE ConductorAt(lengths, MinLen(lengths, Len(lengths)))

\* xy1 or xy2 missing, no SCID at either end, or an end without SCID that is
\* not a pole, a reference or a drop pole
SkipWire(c, nodes) ==
    IF c.node_id_1 \notin DOMAIN nodes \/ c.node_id_2 \notin DOMAIN nodes THEN TRUE
    ELSE LET n1 == nodes[c.node_id_1]
             n2 == nodes[c.node_id_2]
         IN  IF BaseEmpty(n1.scid) /\ BaseEmpty(n2.scid) THEN TRUE
             ELSE IF BaseEmpty(n1.scid) /\ n1.node_type \notin _REF_ALLOWED_NODE_TYPES
             THEN TRUE
             ELSE BaseEmpty(n2.scid) /\ n2.node_type \notin _REF_ALLOWED_NODE_TYPES

RECURSIVE WireRows(_, _, _, _)
\* "for wtype in (...)": a row for each type with a shape or a design value
WireRows(n, pole_pair, pplx_vals, shape_vals) ==
    IF n > Len(WireTypes) THEN <<>>
    ELSE LET wtype == WireTypes[n]
         IN  (IF shape_vals[wtype] # "" \/ pplx_vals[wtype] # ""
              THEN <<[Pole_Pole |-> pole_pair, Wire_Type |-> wtype,
                      PPLX |-> pplx_vals[wtype], Shape |-> shape_vals[wtype]]>>
              ELSE <<>>)
             \o WireRows(n + 1, pole_pair, pplx_vals, shape_vals)

\* the body of the loop for connection ci: its rows and its log entry
WireStep(e, ci) ==
    LET c == e.conns[ci]
        n1 == e.nodes[c.node_id_1]
        n2 == e.nodes[c.node_id_2]
        span_in == IF IsNone(c.span_distance) THEN None
                   ELSE Some(Val(c.span_distance) * 24)
        pplx_path == PoleFile(e.scid_to_pplx, n1.scid, n2.scid)
        pplx_vals == [t \in {"Primary", "Neutral", "Secondary"} |->
                        IF IsNone(pplx_path) THEN ""
                        ELSE PplxVal(e.scid_to_pplx[Val(pplx_path)], t, span_in)]
    IN  [rows |-> WireRows(1, PolePair(RefScid(n1.scid), RefScid(n2.scid)),
                           pplx_vals, e.shape_vals),
         log |-> [ci |-> ci, pplx_path |-> pplx_path, span_in |-> span_in,
                  pplx_vals |-> pplx_vals]]

\* most connections of a comparator run
MaxWireConns == 2

WNode(s, t) == [scid |-> s, node_type |-> t]

\* poles 001 and 002, a reference without SCID and an anchor without SCID
WireNodes ==
    [n \in {"w1", "w2", "w3", "w4"} |->
       CASE n = "w1" -> WNode(Scid(1, ""), "pole")
         [] n = "w2" -> WNode(Scid(2, ""), "pole")
         [] n = "w3" -> WNode([lead |-> None, sfx |-> ""], "reference")
         [] n = "w4" -> WNode([lead |-> None, sfx |-> ""], "anchor")]

\* connections of 10 ft between 001 and 002 listed both ways, one without
\* span distance, one to the reference, one to the anchor and one to a node
\* that is not in the Nodes sheet
WireConnRows ==
    {Conn("cA", "w1", "w2", Some(10)), Conn("cB", "w2", "w1", Some(10)),
     Conn("cC", "w1", "w2", None), Conn("cD", "w3", "w1", Some(10)),
     Conn("cE", "w1", "w4", Some(10)), Conn("cF", "w1", "w9", Some(10))}

WSpan(t, l, c) == [stype |-> t, len |-> l, conductor |-> c]

\* design files of pole 001: one span of 120 in; spans of 110 and 130 in
\* (equally close to 120), 138 in (15 % off) and 139 in; spans of 200 in and
\* twice 125 in, and a span without length
WireFiles ==
    {<<WSpan("Primary", Some(240), Some("AAC"))>>,
     <<WSpan("Primary", Some(220), Some("CU")), WSpan("Primary", Some(260), Some("ACSR")),
       WSpan("Neutral", Some(276), Some("N138")), WSpan("Secondary", Some(278), Some("S139"))>>,
     <<WSpan("Primary", Some(400), Some("P200")), WSpan("Primary", Some(250), Some("P125")),
       WSpan("Primary", Some(250), None), WSpan("Neutral", None, Some("N"))>>}

\* the design file of pole 002
WireFile2 == <<WSpan("Primary", Some(240), Some("P2")), WSpan("Neutral", Some(100), Some("N50"))>>

WireMaps ==
    {<<>>, (Scid(1, "") :> Unparsed), (Scid(2, "") :> Parsed(WireFile2)),
     (Scid(1, "") :> Unparsed) @@ (Scid(2, "") :> Parsed(WireFile2))}
    \cup {(Scid(1, "") :> Parsed(t)) : t \in WireFiles}
    \cup {(Scid(1, "") :> Parsed(t)) @@ (Scid(2, "") :> Parsed(WireFile2)) : t \in WireFiles}

\* what the layers return for every connection: a primary conductor or nothing
ShapeVals ==
    {[t \in {"Primary", "Neutral", "Secondary"} |-> IF t = "Primary" THEN v ELSE ""] :
        v \in {"", "SHP"}}

InitWire ==
    /\ phase = "wire"
    /\ \E conns \in SeqsUpTo(WireConnRows, MaxWireConns) : \E m \in WireMaps :
       \E sv \in ShapeVals :
           env = [nodes |-> WireNodes, conns |-> conns, scid_to_pplx |-> m,
                  shape_vals |-> sv]
    /\ run = [ci |-> 0, rows |-> <<>>, log |-> <<>>]
    /\ file = <<>>
    /\ out = <<>>
    /\ layer = NoLayer
    /\ qry = NoQuery
    /\ res = NoResult
    /\ disk = NoDisk
    /\ proc = NoProc

\* "if not conns or not nodes: return []"
WireReturnEmpty ==
    /\ phase = "wire"
    /\ env.conns = <<>>
    /\ phase' = "wire_done"
    /\ UNCHANGED <<file, out, layer, qry, res, env, run, disk, proc>>

\* a connection that the loop passes over
WireSkip ==
    /\ phase = "wire"
    /\ run.ci < Len(env.conns)
    /\ SkipWire(env.conns[run.ci + 1], env.nodes)
    /\ run' = [run EXCEPT !.ci = @ + 1]
    /\ UNCHANGED <<phase, file, out, layer, qry, res, env, disk, proc>>

\* one pass of the loop over the connections
CompareConnection ==
    /\ phase = "wire"
    /\ run.ci < Len(env.conns)
    /\ ~SkipWire(env.conns[run.ci + 1], env.nodes)
    /\ LET st == WireStep(env, run.ci + 1)
       IN  run' = [ci |-> run.ci + 1, rows |-> run.rows \o st.rows,
                   log |-> Append(run.log, st.log)]
    /\ UNCHANGED <<phase, file, out, layer, qry, res, env, disk, proc>>

\* "return rows"
WireReturn ==
    /\ phase = "wire"
    /\ env.conns # <<>>
    /\ run.ci = Len(env.conns)
    /\ phase' = "wire_done"
    /\ UNCHANGED <<file, out, layer, qry, res, env, run, disk, proc>>

NextWire == WireReturnEmpty \/ WireSkip \/ CompareConnection \/ WireReturn

SpecWire == InitWire /\ [][NextWire]_vars

----------------------------------------------------------------------------
(* The headless job: headless_main, main.py, the block of the wire-spec    *)
(* and spans comparison.  env holds the design files of the category and   *)
(* what parsing each of them gives ("ok", "broken" for a file that         *)
(* load_file cannot parse, "raises" for an exception out of PPLXHandler).  *)
(* proc is the thread pool: the state of the task of each file ("queued",  *)
(* "running", "done"), its result, and the task each worker runs (0 when   *)
(* idle).  run is the main thread: pc, the number of results merged, the   *)
(* shared cache, the consumed map of the spans pass, the connections done  *)
(* in the current pass, and ghost fields that no code reads: parses counts *)
(* the parses of each file, late those made after the preload, touched the *)
(* threads that read or wrote the consumed map, busy whether a task was    *)
(* queued or running at a consumption.                                     *)

\* most design files, worker threads, connections of a pass, spans of a file
MaxFiles == 2

MaxWorkers == 2

MaxJobConns == 2

MaxSpans == 2

\* _load_one_pplx: the handler, without root for a file that does not parse,
\* None when the constructor raises
LoadOnePplx(outcome) ==
    CASE outcome = "ok" -> "handler"
      [] outcome = "broken" -> "rootless"
      [] OTHER -> "none"

ResultReady_Always(tasks, i) == TRUE

\* ex.map yields the result of task i when the task is done
ResultReady(tasks, i) == tasks[i] = "done"

\* "if pplx_path not in pplx_cache: pplx_cache[pplx_path] = PPLXHandler(...)"
\* of both passes: the cache after it and whether the file was parsed
CacheLookup(cache, path, outcome) ==
    IF path \in DOMAIN cache THEN [cache |-> cache, parsed |-> FALSE]
    ELSE [cache |-> cache @@ (path :> LoadOnePplx(outcome)), parsed |-> TRUE]

FileNames == <<"a.pplx", "b.pplx", "c.pplx", "d.pplx">>

\* the design files of the category
JobFiles == {SubSeq(FileNames, 1, n) : n \in 1..MaxFiles}

PathsOf(files) == {files[k] : k \in DOMAIN files}

\* the directory data/OPPD/shape: complete, absent, without the .prj, without
\* ElectricLine selection.shp, with a .prj that pyproj rejects, with a .shp
\* that neither pyogrio nor pyshp can read
ShapeStates == {"ok", "no_dir", "no_prj", "no_shp", "bad_prj", "bad_shp"}

\* what the comparator does before its loop: it is not called without the
\* directory, returns [] without the .prj or the .shp, raises out of
\* transformer_wgs84_to_layer or _get_layer on a file that cannot be read
ShapeOutcome(shape) ==
    CASE shape = "ok" -> "rows"
      [] shape = "no_dir" -> "not_called"
      [] shape \in {"no_prj", "no_shp"} -> "empty"
      [] OTHER -> "raises"

InitJob ==
    /\ phase = "job"
    /\ \E files \in JobFiles : \E o \in [PathsOf(files) -> {"ok", "broken", "raises"}] :
       \E shape \in ShapeStates :
           env = [files |-> files, outcome |-> o, shape |-> shape]
    /\ proc = [tasks |-> <<>>, results |-> <<>>, worker |-> [w \in 1..MaxWorkers |-> 0]]
    /\ run = [pc |-> "start", merged |-> 0, shared_pplx_cache |-> <<>>,
              consumed |-> <<>>, ci |-> 0,
              parses |-> [f \in PathsOf(FileNames) |-> 0], late |-> 0,
              touched |-> {}, busy |-> FALSE,
              wire_spec_data |-> "none", spans_called |-> FALSE]
    /\ file = <<>>
    /\ out = <<>>
    /\ layer = NoLayer
    /\ qry = NoQuery
    /\ res = NoResult
    /\ disk = NoDisk

\* a task is queued or running
PoolBusy == \E k \in DOMAIN proc.tasks : proc.tasks[k] # "done"

\* ex.map(_load_one_pplx, files): one task per file is submitted
SubmitAll ==
    /\ phase = "job"
    /\ run.pc = "start"
    /\ proc' = [proc EXCEPT !.tasks = [k \in DOMAIN env.files |-> "queued"],
                            !.results = [k \in DOMAIN env.files |-> "pending"]]
    /\ run' = [run EXCEPT !.pc = "map"]
    /\ UNCHANGED <<phase, file, out, layer, qry, res, env, disk>>

\* an idle worker takes the first queued task
WorkerTake(w) ==
    /\ phase = "job"
    /\ proc.worker[w] = 0
    /\ \E k \in DOMAIN proc.tasks :
           /\ proc.tasks[k] = "queued"
           /\ \A j \in 1..(k - 1) : proc.tasks[j] # "queued"
           /\ proc' = [proc EXCEPT !.tasks[k] = "running", !.worker[w] = k]
    /\ UNCHANGED <<phase, file, out, layer, qry, res, env, run, disk>>

\* a worker parses its file and delivers the result
WorkerLoad(w) ==
    /\ phase = "job"
    /\ proc.worker[w] # 0
    /\ LET k == proc.worker[w]
           f == env.files[k]
       IN  /\ proc' = [proc EXCEPT !.tasks[k] = "done",
                                   !.results[k] = LoadOnePplx(env.outcome[f]),
                                   !.worker[w] = 0]
           /\ run' = [run EXCEPT !.parses[f] = @ + 1]
    /\ UNCHANGED <<phase, file, out, layer, qry, res, env, disk>>

\* "for fp, handler in ex.map(...): shared_pplx_cache[fp] = handler": the
\* main thread takes the next result in the order of files
Merge ==
    /\ phase = "job"
    /\ run.pc = "map"
    /\ run.merged < Len(env.files)
    /\ ResultReady(proc.tasks, run.merged + 1)
    /\ LET k == run.merged + 1
       IN  run' = [run EXCEPT !.merged = k,
                              !.shared_pplx_cache =
                                  (env.files[k] :> proc.results[k])
                                  @@ run.shared_pplx_cache]
    /\ UNCHANGED <<phase, file, out, layer, qry, res, env, disk, proc>>

\* the end of the with block, and the call of build_wire_spec_comparison
\* with the shape files in place
StartWireSpec ==
    /\ phase = "job"
    /\ run.pc = "map"
    /\ run.merged = Len(env.files)
    /\ ShapeOutcome(env.shape) = "rows"
    /\ run' = [run EXCEPT !.pc = "wire", !.ci = 0, !.wire_spec_data = "rows"]
    /\ UNCHANGED <<phase, file, out, layer, qry, res, env, disk, proc>>

\* the end of the with block when the comparator is not called or returns
\* [] before its loop
WireSpecEmpty ==
    /\ phase = "job"
    /\ run.pc = "map"
    /\ run.merged = Len(env.files)
    /\ ShapeOutcome(env.shape) \in {"not_called", "empty"}
    /\ run' = [run EXCEPT !.pc = "wire", !.ci = MaxJobConns, !.wire_spec_data = "empty"]
    /\ UNCHANGED <<phase, file, out, layer, qry, res, env, disk, proc>>

\* the end of the with block when the comparator raises: "except Exception"
\* of headless_main ends the block of both comparisons
WireSpecRaises ==
    /\ phase = "job"
    /\ run.pc = "map"
    /\ run.merged = Len(env.files)
    /\ ShapeOutcome(env.shape) = "raises"
    /\ run' = [run EXCEPT !.pc = "end", !.wire_spec_data = "empty"]
    /\ UNCHANGED <<phase, file, out, layer, qry, res, env, disk, proc>>

\* a connection of the comparator that consults the design file path
WireSpecConnection ==
    /\ phase = "job"
    /\ run.pc = "wire"
    /\ run.ci < MaxJobConns
    /\ \E k \in DOMAIN env.files :
           LET path == env.files[k]
               got == CacheLookup(run.shared_pplx_cache, path, env.outcome[path])
           IN  run' = [run EXCEPT !.ci = @ + 1,
                                  !.shared_pplx_cache = got.cache,
                                  !.parses[path] = IF got.parsed THEN @ + 1 ELSE @,
                                  !.late = IF got.parsed THEN @ + 1 ELSE @]
    /\ UNCHANGED <<phase, file, out, layer, qry, res, env, disk, proc>>

\* build_wire_spec_comparison returns and build_spans_comparison_data is
\* called: it defines its helpers, or raises NameError where annotations are
\* evaluated at the def, which headless_main catches
StartSpans ==
    /\ phase = "job"
    /\ run.pc = "wire"
    /\ \E defined \in BOOLEAN :
           run' = [run EXCEPT !.pc = IF defined THEN "spans" ELSE "end", !.ci = 0,
                              !.spans_called = TRUE]
    /\ UNCHANGED <<phase, file, out, layer, qry, res, env, disk, proc>>

\* a connection of the reconciler that consults the design file path:
\* _load_pplx_pairs, then _count_and_consume marks the spans it matched
SpansConnection ==
    /\ phase = "job"
    /\ run.pc = "spans"
    /\ run.ci < MaxJobConns
    /\ \E k \in DOMAIN env.files : \E matched \in SUBSET (1..MaxSpans) :
           LET path == env.files[k]
               got == CacheLookup(run.shared_pplx_cache, path, env.outcome[path])
               before == IF path \in DOMAIN run.consumed THEN run.consumed[path] ELSE {}
           IN  /\ matched \cap before = {}
               /\ IF got.cache[path] = "handler"
                  THEN run' = [run EXCEPT
                                 !.ci = @ + 1,
                                 !.shared_pplx_cache = got.cache,
                                 !.parses[path] = IF got.parsed THEN @ + 1 ELSE @,
                                 !.late = IF got.parsed THEN @ + 1 ELSE @,
                                 !.consumed = (path :> (before \cup matched)) @@ @,
                                 !.touched = @ \cup {"main"},
                                 !.busy = @ \/ PoolBusy]
                  ELSE /\ matched = {}
                       /\ run' = [run EXCEPT
                                    !.ci = @ + 1,
                                    !.shared_pplx_cache = got.cache,
                                    !.parses[path] = IF got.parsed THEN @ + 1 ELSE @,
                                    !.late = IF got.parsed THEN @ + 1 ELSE @]
    /\ UNCHANGED <<phase, file, out, layer, qry, res, env, disk, proc>>

\* build_spans_comparison_data returns
EndSpans ==
    /\ phase = "job"
    /\ run.pc = "spans"
    /\ run' = [run EXCEPT !.pc = "end"]
    /\ UNCHANGED <<phase, file, out, layer, qry, res, env, disk, proc>>

\* write_change_log
WriteChangeLog ==
    /\ phase = "job"
    /\ run.pc = "end"
    /\ run' = [run EXCEPT !.pc = "written"]
    /\ UNCHANGED <<phase, file, out, layer, qry, res, env, disk, proc>>

NextJob ==
    \/ SubmitAll
    \/ \E w \in 1..MaxWorkers : WorkerTake(w)
    \/ \E w \in 1..MaxWorkers : WorkerLoad(w)
    \/ Merge
    \/ StartWireSpec
    \/ WireSpecEmpty
    \/ WireSpecRaises
    \/ WireSpecConnection
    \/ StartSpans
    \/ SpansConnection
    \/ EndSpans
    \/ WriteChangeLog

SpecJob == InitJob /\ [][NextJob]_vars

----------------------------------------------------------------------------
(* Two runs of build_spans_comparison_data on the same arguments.  env is  *)
(* as in the reconciler; run holds the number of runs made, the position   *)
(* and the rows of the run under way, the rows either run returned, the    *)
(* consumed map of the last run, the iteration order of comm_types in the  *)
(* process of the last run and whether the second run was made in the      *)
(* process of the first.                                                   *)

\* most connections of a run that is made twice
MaxTwiceConns == 2

InitialConsumed_Kept(scid_to_pplx, previous) == previous

\* "consumed_span_indices: Dict[str, Set[int]] = {}" at the start of a run;
\* previous is the map the run before ended with
InitialConsumed(scid_to_pplx, previous) == [q \in DOMAIN scid_to_pplx |-> {}]

\* connections between 001 and 002 listed both ways, and from 001.A to 002
TwiceConnRows == {c \in ConnRows : c.connection_id \in {"cA", "cB", "cE"}}

InitTwice ==
    /\ phase = "twice"
    /\ \E cs \in SeqsUpTo(TwiceConnRows, MaxTwiceConns) : \E ss \in SectionSheets :
       \E fm \in PplxMaps : \E mc \in MidspanCounts :
           /\ env = [nodes |-> Nodes, conns |-> cs, sections |-> ss, scid_to_pplx |-> fm,
                     span_type_mapping |-> SpanTypeMapping, midspan_counts |-> mc]
           /\ run = [n |-> 0, pc |-> "idle", ci |-> 0, rows |-> <<>>,
                     first |-> <<>>, second |-> <<>>,
                     consumed_span_indices |-> [q \in DOMAIN fm |-> {}],
                     order |-> <<>>, same_process |-> FALSE]
    /\ file = <<>>
    /\ out = <<>>
    /\ layer = NoLayer
    /\ qry = NoQuery
    /\ res = NoResult
    /\ disk = NoDisk
    /\ proc = NoProc

\* the call of the first run, in a process whose set comm_types iterates in
\* some order, up to its loop
FirstRun ==
    /\ phase = "twice"
    /\ run.n = 0 /\ run.pc = "idle"
    /\ \E order \in CommOrders :
           run' = [run EXCEPT !.pc = "loop", !.ci = 0, !.rows = <<>>, !.order = order,
                              !.consumed_span_indices =
                                  InitialConsumed(env.scid_to_pplx, @)]
    /\ UNCHANGED <<phase, file, out, layer, qry, res, env, disk, proc>>

\* the call of the second run in the same process, with the shared
\* design-file cache of the first
RunAgain ==
    /\ phase = "twice"
    /\ run.n = 1 /\ run.pc = "idle"
    /\ run' = [run EXCEPT !.pc = "loop", !.ci = 0, !.rows = <<>>,
                          !.same_process = TRUE,
                          !.consumed_span_indices = InitialConsumed(env.scid_to_pplx, @)]
    /\ UNCHANGED <<phase, file, out, layer, qry, res, env, disk, proc>>

\* the call of the second run in a new process: the strings of comm_types
\* hash under a new seed, and the set iterates in some order
RunInNewProcess ==
    /\ phase = "twice"
    /\ run.n = 1 /\ run.pc = "idle"
    /\ \E order \in CommOrders :
           run' = [run EXCEPT !.pc = "loop", !.ci = 0, !.rows = <<>>, !.order = order,
                              !.same_process = FALSE,
                              !.consumed_span_indices =
                                  [q \in DOMAIN env.scid_to_pplx |-> {}]]
    /\ UNCHANGED <<phase, file, out, layer, qry, res, env, disk, proc>>

\* one iteration of "for c in conns" of the run under way
TwiceStep ==
    /\ phase = "twice"
    /\ run.pc = "loop"
    /\ env.conns # <<>> /\ env.sections # <<>>
    /\ run.ci < Len(env.conns)
    /\ IF SkipConnection(env.conns[run.ci + 1], env.nodes,
                         PoaCounts(env.span_type_mapping, env.sections))
       THEN run' = [run EXCEPT !.ci = @ + 1]
       ELSE LET step == ConnectionStep(env, run.ci + 1, run.consumed_span_indices,
                                       run.order)
            IN  run' = [run EXCEPT !.ci = @ + 1, !.rows = @ \o step.rows,
                                   !.consumed_span_indices = step.consumed_span_indices]
    /\ UNCHANGED <<phase, file, out, layer, qry, res, env, disk, proc>>

\* the return of the run under way: [] without connections or sections,
\* else the sorted rows
TwiceReturn ==
    /\ phase = "twice"
    /\ run.pc = "loop"
    /\ IF env.conns = <<>> THEN TRUE
       ELSE IF env.sections = <<>> THEN TRUE
       ELSE run.ci = Len(env.conns)
    /\ LET rows == SortRows(run.rows, Len(run.rows))
       IN  run' = [run EXCEPT !.pc = "idle", !.n = @ + 1,
                              !.first = IF run.n = 0 THEN rows ELSE @,
                              !.second = IF run.n = 1 THEN rows ELSE @]
    /\ UNCHANGED <<phase, file, out, layer, qry, res, env, disk, proc>>

NextTwice == FirstRun \/ RunAgain \/ RunInNewProcess \/ TwiceStep \/ TwiceReturn

SpecTwice == InitTwice /\ [][NextTwice]_vars

----------------------------------------------------------------------------
(* The two passes of the comparison side by side: a run of the wire-spec   *)
(* comparator or a run of the reconciler.                                  *)

InitPasses == InitWire \/ InitRecon

NextPasses == NextWire \/ NextRecon

SpecPasses == InitPasses /\ [][NextPasses]_vars

----------------------------------------------------------------------------
(* The order of the rows: rows.sort at the end of                          *)
(* build_spans_comparison_data.  env.rows is the list before the sort, in  *)
(* connection processing order, run.rows the list after it; the ghost      *)
(* field g.pos, which no code reads, is the place of a row before the      *)
(* sort.                                                                   *)

\* most rows of a list
MaxSortRows == 3

\* poles 1, 001.A, 10 and a pole id without leading digits; to-poles 2 and
\* one without leading digits; two span types
SortRowSet ==
    [Pole : {Scid(1, ""), Scid(1, ".A"), Scid(10, ""), [lead |-> None, sfx |-> "X"]},
     To_Pole : {Scid(2, ""), [lead |-> None, sfx |-> "Y"]},
     Span_Type : {"Fiber", "Primary"}]

InitSort ==
    /\ phase = "sort"
    /\ \E rows \in SeqsUpTo(SortRowSet, MaxSortRows) :
           env = [rows |-> [i \in DOMAIN rows |->
                              [Pole |-> rows[i].Pole, To_Pole |-> rows[i].To_Pole,
                               Span_Type |-> rows[i].Span_Type, g |-> [pos |-> i]]]]
    /\ run = [rows |-> <<>>]
    /\ file = <<>>
    /\ out = <<>>
    /\ layer = NoLayer
    /\ qry = NoQuery
    /\ res = NoResult
    /\ disk = NoDisk
    /\ proc = NoProc

\* "rows.sort(key=...)" and "return rows"
Sort ==
    /\ phase = "sort"
    /\ phase' = "sorted"
    /\ run' = [rows |-> SortRows(env.rows, Len(env.rows))]
    /\ UNCHANGED <<file, out, layer, qry, res, env, disk, proc>>

NextSort == Sort

SpecSort == InitSort /\ [][NextSort]_vars

----------------------------------------------------------------------------
(* The loop of the cap: the while loop of build_spans_comparison_data that *)
(* hands out the attachments left after the first round, one iteration a   *)
(* step.  env is [katapult_counts, limit, order] as for the cap; run is    *)
(* [types_sorted, raw_comm, adj_comm, remaining, idx] and the ghost field  *)
(* idle, which no code reads: the iterations since the last attachment was *)
(* handed out.                                                             *)

\* largest survey count of a comm type and largest bound of the loop model
MaxLoopCount == 4

MaxLoopLimit == 5

\* survey counts of the comm types, at most one Telco, no other types
LoopCounts ==
    {[t \in TypeKeys |-> IF t \in comm_types THEN c[t] ELSE 0] :
        c \in {d \in [comm_types -> 0..MaxLoopCount] : d["telco"] <= 1}}

LoopLimits == {None} \cup {Some(n) : n \in 1..MaxLoopLimit}

\* an iteration that does not move on to the next type
WhileStep_SameIndex(types_sorted, raw_comm, st) ==
    LET t == types_sorted[(st.idx % Len(types_sorted)) + 1]
        spare == raw_comm[t] - st.adj_comm[t]
    IN  IF spare > 0
        THEN [adj_comm |-> [st.adj_comm EXCEPT ![t] = @ + 1],
              remaining |-> st.remaining - 1, idx |-> st.idx]
        ELSE [adj_comm |-> st.adj_comm, remaining |-> st.remaining, idx |-> st.idx]

\* the body of "while remaining > 0 and types_sorted"
WhileStep(types_sorted, raw_comm, st) ==
    LET t == types_sorted[(st.idx % Len(types_sorted)) + 1]
        spare == raw_comm[t] - st.adj_comm[t]
    IN  IF spare > 0
        THEN [adj_comm |-> [st.adj_comm EXCEPT ![t] = @ + 1],
              remaining |-> st.remaining - 1, idx |-> st.idx + 1]
        ELSE [adj_comm |-> st.adj_comm, remaining |-> st.remaining, idx |-> st.idx + 1]

InitLoop ==
    /\ phase = "cap"
    /\ \E k \in LoopCounts : \E limit \in LoopLimits : \E order \in CommOrders :
           env = [katapult_counts |-> k, limit |-> limit, order |-> order]
    /\ run = [types_sorted |-> <<>>, raw_comm |-> [t \in comm_types |-> 0],
              adj_comm |-> [t \in comm_types |-> 0], remaining |-> 0, idx |-> 0,
              idle |-> 0]
    /\ file = <<>>
    /\ out = <<>>
    /\ layer = NoLayer
    /\ qry = NoQuery
    /\ res = NoResult
    /\ disk = NoDisk
    /\ proc = NoProc

\* the cap up to the while loop: no loop without comm counts, without a
\* bound, or with a bound the counts do not exceed
StartCap ==
    /\ phase = "cap"
    /\ LET raw_keys == SelectSeq2(env.order,
                                  [t \in comm_types |-> env.katapult_counts[t] > 0], 1)
           raw_comm == [t \in comm_types |-> env.katapult_counts[t]]
           total_raw == SumOver(raw_comm, comm_types)
           zero == [t \in comm_types |-> 0]
       IN  IF raw_keys = <<>> \/ IsNone(env.limit)
           THEN /\ phase' = "capped"
                /\ run' = [run EXCEPT !.raw_comm = raw_comm, !.adj_comm = raw_comm]
           ELSE IF Min2(Val(env.limit), total_raw) = total_raw
           THEN /\ phase' = "capped"
                /\ run' = [run EXCEPT !.raw_comm = raw_comm, !.adj_comm = raw_comm]
           ELSE LET types_sorted == TypesSorted(raw_keys, Len(raw_keys), raw_comm)
                    first == FirstRound(types_sorted, 1,
                                        [adj_comm |-> zero,
                                         remaining |-> Min2(Val(env.limit), total_raw)])
                IN  /\ phase' = "while"
                    /\ run' = [types_sorted |-> types_sorted, raw_comm |-> raw_comm,
                               adj_comm |-> first.adj_comm, remaining |-> first.remaining,
                               idx |-> 0, idle |-> 0]
    /\ UNCHANGED <<file, out, layer, qry, res, env, disk, proc>>

\* one iteration of the while loop
WhilePass ==
    /\ phase = "while"
    /\ run.remaining > 0
    /\ run.types_sorted # <<>>
    /\ LET st == WhileStep(run.types_sorted, run.raw_comm,
                           [adj_comm |-> run.adj_comm, remaining |-> run.remaining,
                            idx |-> run.idx])
       IN  run' = [run EXCEPT !.adj_comm = st.adj_comm, !.remaining = st.remaining,
                              !.idx = st.idx,
                              !.idle = IF st.remaining < run.remaining THEN 0 ELSE @ + 1]
    /\ UNCHANGED <<phase, file, out, layer, qry, res, env, disk, proc>>

\* the condition of the while loop is false
WhileExit ==
    /\ phase = "while"
    /\ ~(run.remaining > 0 /\ run.types_sorted # <<>>)
    /\ phase' = "capped"
    /\ UNCHANGED <<file, out, layer, qry, res, env, run, disk, proc>>

NextLoop == StartCap \/ WhilePass \/ WhileExit

\* the loop runs in one thread that nothing stops
SpecLoop == InitLoop /\ [][NextLoop]_vars /\ WF_vars(NextLoop)

----------------------------------------------------------------------------
(* The files of a category: the thread pool of headless_main that runs     *)
(* process_single_file on every file, and the loop of the main thread over *)
(* zip(files, executor.map(...)).  env is [files, status]: the input list  *)
(* and what process_single_file returns for each file.  proc is the pool:  *)
(* the state of the task of each file, the task each worker runs (0 when   *)
(* idle) and the ghost field finished, the tasks in the order they ended.  *)
(* run is the main thread: pc, the three counters, csv_data (the file of   *)
(* each row) and the ghost field consumed, the files whose results the     *)
(* loop has taken, in that order.  No code reads a ghost field.            *)

\* most files of a category, number of worker threads
MaxPoolFiles == 3

MaxPoolWorkers == 2

\* results in completion order, as concurrent.futures.as_completed gives them
NextResult_AsCompleted(finished, consumed) ==
    IF Len(finished) > Len(consumed) THEN finished[Len(consumed) + 1]
    ELSE Len(consumed) + 1

\* the file whose result the iterator of executor.map yields next: the
\* results come in the order of the input
NextResult(finished, consumed) == Len(consumed) + 1

\* the result of process_single_file: its status and its csv_row (the file
\* name stands for the row), None unless the status is "success"
ProcessSingleFile(file_path, status) ==
    [status |-> status,
     csv_row |-> IF status = "success" THEN Some(file_path) ELSE None]

InitPool ==
    /\ phase = "files"
    /\ \E n \in 1..MaxPoolFiles :
       \E st \in [PathsOf(SubSeq(FileNames, 1, n)) -> {"success", "skipped", "failed"}] :
           env = [files |-> SubSeq(FileNames, 1, n), status |-> st]
    /\ proc = [tasks |-> <<>>, worker |-> [w \in 1..MaxPoolWorkers |-> 0],
               finished |-> <<>>]
    /\ run = [pc |-> "start", consumed |-> <<>>, successful |-> 0, skipped |-> 0,
              failed |-> 0, csv_data |-> <<>>]
    /\ file = <<>>
    /\ out = <<>>
    /\ layer = NoLayer
    /\ qry = NoQuery
    /\ res = NoResult
    /\ disk = NoDisk

\* executor.map(process_fn, files): every file is submitted at once
SubmitFiles ==
    /\ phase = "files"
    /\ run.pc = "start"
    /\ proc' = [proc EXCEPT !.tasks = [i \in DOMAIN env.files |-> "queued"]]
    /\ run' = [run EXCEPT !.pc = "loop"]
    /\ UNCHANGED <<phase, file, out, layer, qry, res, env, disk>>

\* an idle worker takes the first task of the queue
PoolTake(w) ==
    /\ phase = "files"
    /\ proc.worker[w] = 0
    /\ \E i \in DOMAIN proc.tasks :
           /\ proc.tasks[i] = "queued"
           /\ \A j \in 1..(i - 1) : proc.tasks[j] # "queued"
           /\ proc' = [proc EXCEPT !.tasks[i] = "running", !.worker[w] = i]
    /\ UNCHANGED <<phase, file, out, layer, qry, res, env, run, disk>>

\* process_single_file returns in worker w
PoolFinish(w) ==
    /\ phase = "files"
    /\ proc.worker[w] # 0
    /\ proc' = [proc EXCEPT !.tasks[proc.worker[w]] = "done", !.worker[w] = 0,
                            !.finished = Append(@, proc.worker[w])]
    /\ UNCHANGED <<phase, file, out, layer, qry, res, env, run, disk>>

\* one pass of "for file_path, result in zip(files, executor.map(...))": the
\* main thread waits for the result it is to take next
ConsumeResult ==
    /\ phase = "files"
    /\ run.pc = "loop"
    /\ Len(run.consumed) < Len(env.files)
    /\ LET i == NextResult(proc.finished, run.consumed)
           result == ProcessSingleFile(env.files[i], env.status[env.files[i]])
       IN  /\ proc.tasks[i] = "done"
           /\ run' = [run EXCEPT
                  !.consumed = Append(@, i),
                  !.successful = IF result.status = "success" THEN @ + 1 ELSE @,
                  !.skipped = IF result.status = "skipped" THEN @ + 1 ELSE @,
                  !.failed = IF result.status \notin {"success", "skipped"}
                             THEN @ + 1 ELSE @,
                  !.csv_data = IF result.status = "success" /\ ~IsNone(result.csv_row)
                               THEN Append(@, Val(result.csv_row)) ELSE @]
    /\ UNCHANGED <<phase, file, out, layer, qry, res, env, disk, proc>>

\* the end of the with block: every result was taken
EndFiles ==
    /\ phase = "files"
    /\ run.pc = "loop"
    /\ Len(run.consumed) = Len(env.files)
    /\ run' = [run EXCEPT !.pc = "end"]
    /\ UNCHANGED <<phase, file, out, layer, qry, res, env, disk, proc>>

NextPool ==
    \/ SubmitFiles
    \/ \E w \in 1..MaxPoolWorkers : PoolTake(w)
    \/ \E w \in 1..MaxPoolWorkers : PoolFinish(w)
    \/ ConsumeResult
    \/ EndFiles

SpecPool == InitPool /\ [][NextPool]_vars

----------------------------------------------------------------------------
(* Properties of the reconciler *)

\* the spans extracted from the design file a row consulted
TriplesOf(r) == ExtractTriples(env.scid_to_pplx[Val(r.g.pplx_path)].tree)

\* the matched spans of a row's connection that have the row's type
MatchedOfType(r) ==
    {i \in r.g.matched : Lower(TriplesOf(r)[i].stype) = Lower(r.Span_Type)}

\* rows i and j belong to different connections that read one design file
ShareFile(i, j) ==
    /\ run.rows[i].g.loaded /\ run.rows[j].g.loaded
    /\ run.rows[i].g.pplx_path = run.rows[j].g.pplx_path
    /\ run.rows[i].g.ci # run.rows[j].g.ci

RECURSIVE SumPPLX(_, _)
\* the sum of the PPLX counts of the first n rows that consulted file q
SumPPLX(q, n) ==
    IF n = 0 THEN 0
    ELSE SumPPLX(q, n - 1)
         + (IF run.rows[n].g.loaded /\ run.rows[n].g.pplx_path = Some(q)
            THEN run.rows[n].PPLX ELSE 0)

\* C1: every PPLX count is the number of spans its connection matched, no
\* span is matched by two connections or after it was consumed, and the PPLX
\* counts of the rows that consulted one design file sum to at most the
\* number of spans extracted from it
C1_ConsumedOnce ==
    /\ \A i \in DOMAIN run.rows :
           LET r == run.rows[i]
           IN  IF r.g.loaded
               THEN /\ r.PPLX = Cardinality(MatchedOfType(r))
                    /\ r.g.matched \cap r.g.before = {}
                    /\ r.g.matched \subseteq run.consumed_span_indices[Val(r.g.pplx_path)]
               ELSE r.PPLX = 0
    /\ \A i, j \in DOMAIN run.rows :
           ShareFile(i, j) => run.rows[i].g.matched \cap run.rows[j].g.matched = {}
    /\ \A q \in DOMAIN env.scid_to_pplx :
           ~env.scid_to_pplx[q].broken =>
               SumPPLX(q, Len(run.rows))
                   <= Len(ExtractTriples(env.scid_to_pplx[q].tree))

\* a later connection passes over a span that fits it in length and bearing
\* because an earlier connection consumed it
C1_Witness ==
    /\ phase = "done"
    /\ \E i, j \in DOMAIN run.rows :
           /\ ShareFile(i, j)
           /\ run.rows[i].g.ci < run.rows[j].g.ci
           /\ run.rows[j].PPLX = 0
           /\ \E x \in MatchedOfType(run.rows[i]) :
                  /\ x \in run.rows[j].g.before
                  /\ Lower(TriplesOf(run.rows[j])[x].stype) = Lower(run.rows[j].Span_Type)
                  /\ Classify(TriplesOf(run.rows[j])[x], run.rows[j].g.length_in,
                              LENGTH_TOLERANCE_IN, run.rows[j].g.target_angle) = "match"

\* the smallest angle between two directions
TrueAngleDiff(a, b) ==
    LET d == (a - b) % FullTurn
    IN  Min2(d, FullTurn - d)

\* both bearings are available and differ by at most 10 degrees
BearingMatches(t, target_angle) ==
    /\ ~IsNone(target_angle) /\ ~IsNone(t.angle)
    /\ TrueAngleDiff(Val(t.angle), Val(target_angle)) <= ANGLE_TOLERANCE

\* both bearings are available and pass the angle test of the code
BearingPasses(t, target_angle) ==
    /\ ~IsNone(target_angle) /\ ~IsNone(t.angle)
    /\ AngleOk(Val(t.angle), Val(target_angle))

\* an unconsumed span of the row's type matches the bearing (by the test
\* M) but not the length
LengthCandidate(r, M(_, _)) ==
    /\ r.g.loaded
    /\ \E x \in DOMAIN TriplesOf(r) \ r.g.before :
           /\ Lower(TriplesOf(r)[x].stype) = Lower(r.Span_Type)
           /\ M(TriplesOf(r)[x], r.g.target_angle)
           /\ ~LengthOk(TriplesOf(r)[x].len, r.g.length_in, LENGTH_TOLERANCE_IN)

\* the verdict rule of the rows, with M as the bearing test
VerdictRule(M(_, _)) ==
    \A i \in DOMAIN run.rows :
        LET r == run.rows[i]
        IN  /\ r.QC \in {"PASS", "Length", "FAIL"}
            /\ r.QC = "PASS" <=> r.Katapult = r.PPLX
            /\ r.QC = "Length" <=> (r.Katapult > r.PPLX /\ LengthCandidate(r, M))

\* C2: a row is PASS exactly when k = p, Length exactly when k > p and an
\* unconsumed span of its type in the consulted design file is within 10
\* degrees of the target bearing but not within the length tolerance, and
\* FAIL otherwise
C2_VerdictRule == VerdictRule(BearingMatches)

\* the verdict rule with "matches the bearing" read as the angle test of
\* _count_and_consume
C2_VerdictRuleByCodeTest == VerdictRule(BearingPasses)

\* a span is matched only if M allows it
MatchRule(M(_, _)) ==
    \A i \in DOMAIN run.rows :
        LET r == run.rows[i]
        IN  r.g.loaded =>
                \A x \in r.g.matched :
                    LET t == TriplesOf(r)[x]
                    IN  /\ LengthOk(t.len, r.g.length_in, LENGTH_TOLERANCE_IN)
                        /\ IF ~IsNone(r.g.target_angle) /\ ~IsNone(t.angle)
                           THEN M(t, r.g.target_angle)
                           ELSE Lower(t.stype) \notin comm_types

\* C3: a matched span is within 36 in of the span distance; when both
\* bearings are available the smallest angle between them is at most 10
\* degrees; when one is missing the span is not CATV, Fiber or Telco
C3_MatchPredicate == MatchRule(BearingMatches)

\* the match rule with the angle test of _count_and_consume instead of the
\* smallest angle between the directions
C3_MatchPredicateByCodeTest == MatchRule(BearingPasses)

\* the endpoints of a connection as nodes, lower-ordered pole first
EndsInOrder(c) ==
    IF PoleOrderLE(env.nodes[c.node_id_1].scid, env.nodes[c.node_id_2].scid)
    THEN <<env.nodes[c.node_id_1], env.nodes[c.node_id_2]>>
    ELSE <<env.nodes[c.node_id_2], env.nodes[c.node_id_1]>>

\* the pole has a design file
HasFile(node) == Val(BasePoleId(node.scid)) \in DOMAIN env.scid_to_pplx

\* the endpoints of a connection, the pole whose file is to be consulted
\* first, or nothing when neither pole has a file
FileEnds(c) ==
    LET ends == EndsInOrder(c)
    IN  IF HasFile(ends[1]) THEN Some(ends)
        ELSE IF HasFile(ends[2]) THEN Some(<<ends[2], ends[1]>>)
        ELSE None

\* C19: every reconciled connection consults the file of its lower-ordered
\* pole if that pole has one, else the file of the higher-ordered pole, and
\* its target bearing is the bearing from the pole of that file to the other
\* pole (none when a coordinate is a text cell, none without a file).
C19_FileAndBearing ==
    \A i \in DOMAIN run.rows :
        LET g == run.rows[i].g
            fe == FileEnds(env.conns[g.ci])
        IN  IF IsNone(fe) THEN IsNone(g.pplx_path) /\ IsNone(g.target_angle)
            ELSE LET from == Val(fe)[1]
                     to == Val(fe)[2]
                 IN  /\ g.pplx_path = BasePoleId(from.scid)
                     /\ g.target_angle =
                          IF from.as_text \/ to.as_text THEN None
                          ELSE Some(Bearing(Val(from.latitude), Val(from.longitude),
                                            Val(to.latitude), Val(to.longitude)))

\* a connection that lists pole 002 before pole 001 when only 002 has a
\* design file: the bearing from 002 to 001 points south
C19_Witness ==
    \E i \in DOMAIN run.rows :
        LET g == run.rows[i].g
            c == env.conns[g.ci]
        IN  /\ env.nodes[c.node_id_1].scid = Scid(2, "")
            /\ env.nodes[c.node_id_2].scid = Scid(1, "")
            /\ 1 \notin DOMAIN env.scid_to_pplx
            /\ g.pplx_path = Some(2)
            /\ g.target_angle = Some(HalfTurn)
            /\ g.matched # {}

\* both runs were made
RanTwice == phase = "twice" /\ run.n = 2 /\ run.pc = "idle"

\* C21 (as stated): two runs on the same arguments return the same rows.
C21_SameRows ==
    RanTwice => run.second = run.first

\* C21, the part the code keeps: a second run in the process of the first,
\* with its design-file cache, returns the rows of the first
C21_SameRowsInOneProcess ==
    (RanTwice /\ run.same_process) => run.second = run.first

\* a second run in the same process after a first run that consumed spans
C21_Witness ==
    /\ RanTwice
    /\ run.same_process
    /\ run.second = run.first
    /\ \E i \in DOMAIN run.first : run.first[i].PPLX > 0
    /\ \E q \in DOMAIN run.consumed_span_indices : run.consumed_span_indices[q] # {}

----------------------------------------------------------------------------
(* Properties of the extractor *)

Extracted == phase = "extracted"

\* the two angles are the same direction
SameDirection(x, y) == (x - y) % FullTurn = 0

\* the dedup key of an emitted triple
KeyOf(t) == DedupKey(t.stype, t.len, t.angle)

\* the id of the element that holds element id
ParentId(id) == SubSeq(id, 1, Len(id) - 1)

BundleSet == {AllBundles(file, 1)[n] : n \in DOMAIN AllBundles(file, 1)}

\* the children of bundle e whose SpanType is the comm type t
CommKids(e, t) == {k \in DOMAIN e.b.kids : Lower(e.b.kids[k].stype) = t}

\* those that also carry a length
UsableCommKids(e, t) == {k \in CommKids(e, t) : SpanUsable(e.b.kids[k])}

\* the emitted spans of type t that come from a child of bundle e
EmittedFor(e, t) ==
    {n \in DOMAIN out : ParentId(out[n].src.id) = e.id /\ Lower(out[n].stype) = t}

\* the emitted bearing is the bundle's: parent insulator angle plus relative angle
BundleBearing(e, angle) ==
    LET r == e.b.angle
    IN  IF IsNone(e.ins)
        THEN IF IsNone(r) THEN IsNone(angle)
             ELSE ~IsNone(angle) /\ SameDirection(Val(angle), Val(r))
        ELSE LET a == file[Val(e.ins)].angle
             IN  IF IsNone(a) THEN IsNone(angle)
                 ELSE /\ ~IsNone(angle)
                      /\ SameDirection(Val(angle),
                                       Val(a) + (IF IsNone(r) THEN 0 ELSE Val(r)))

\* the spans the one-to-one pass considers: usable, below an insulator, not a
\* comm span of a bundle
Pass2Candidates ==
    UNION {
        LET spans == InsulatorSpans(i, file[i].kids, 1)
        IN  {[id |-> spans[n].id, ins |-> i,
              key |-> DedupKey(spans[n].s.stype, Val(spans[n].s.len),
                               SpanAbsoluteAngle(file[i].angle, spans[n].s.angle)),
              rel |-> spans[n].s.angle] :
                n \in {m \in DOMAIN spans :
                         /\ SpanUsable(spans[m].s)
                         /\ ~(Len(spans[m].id) = 3
                              /\ Lower(spans[m].s.stype) \in comm_types)}}
        : i \in {j \in DOMAIN file : file[j].tag = "Insulator"}}

EmittedOneToOne(id) ==
    \E n \in DOMAIN out : out[n].src.pass = 2 /\ out[n].src.id = id

\* how many elements of the file encode key K
Encodings(K) ==
    Cardinality({c \in Pass2Candidates : c.key = K})
    + Cardinality({n \in DOMAIN out : out[n].src.pass = 1 /\ KeyOf(out[n]) = K})

EmittedWithKey(K) == {n \in DOMAIN out : KeyOf(out[n]) = K}

\* C4: every bearing the extractor emits lies in [0, 2*pi), whatever the
\* insulator, bundle and span angles are (negative, 2*pi or more, absent).
C4_BearingInRange ==
    Extracted =>
        \A n \in DOMAIN out :
            ~IsNone(out[n].angle) =>
                (0 <= Val(out[n].angle) /\ Val(out[n].angle) < FullTurn)

\* C5 as stated: for every SpanBundle and every comm type among its child
\* spans exactly one span of that type is emitted, at the bundle's bearing,
\* and no comm child of a bundle is emitted by the one-to-one pass.
C5_OnePerTypeOfAnyChild ==
    Extracted =>
        \A e \in BundleSet : \A t \in comm_types :
            CommKids(e, t) # {} =>
                /\ Cardinality(EmittedFor(e, t)) = 1
                /\ \A n \in EmittedFor(e, t) :
                       out[n].src.pass = 1 /\ BundleBearing(e, out[n].angle)

\* C5 amended: for every SpanBundle and every comm type among its child
\* spans that carry a length, exactly one span of that type is emitted, by
\* the bundle pass, with the bearing of the bundle (its insulator's angle plus
\* its own relative angle, as a direction; no bearing when the insulator has
\* no angle) and not a child's; a comm type whose children all lack a length
\* gets none, and no comm child of a bundle is emitted by the one-to-one pass.
C5_OnePerTypeOfUsableChild ==
    Extracted =>
        \A e \in BundleSet : \A t \in comm_types :
            /\ Cardinality(EmittedFor(e, t)) =
                   (IF UsableCommKids(e, t) # {} THEN 1 ELSE 0)
            /\ \A n \in EmittedFor(e, t) :
                   out[n].src.pass = 1 /\ BundleBearing(e, out[n].angle)

\* C5 witness: a bundle below an insulator, both with an angle, with two CATV
\* children of different own angles, has been extracted to one span.
C5_Witness ==
    /\ Extracted
    /\ \E e \in BundleSet :
           /\ ~IsNone(e.ins) /\ ~IsNone(file[Val(e.ins)].angle)
           /\ ~IsNone(e.b.angle)
           /\ Cardinality(UsableCommKids(e, "catv")) = 2
           /\ e.b.kids[1].angle # e.b.kids[2].angle
           /\ Len(out) = 1

\* the span is encoded once on a direction-specific insulator (own angle
\* nonzero, span angle zero) and once on a base insulator (own angle zero,
\* span angle nonzero), and nowhere else
EncodedTwice(c, d) ==
    /\ c.ins # d.ins
    /\ c.key = d.key
    /\ ~IsNone(file[c.ins].angle) /\ Val(file[c.ins].angle) # 0
    /\ c.rel = Some(0)
    /\ file[d.ins].angle = Some(0)
    /\ ~IsNone(d.rel) /\ Val(d.rel) # 0
    /\ Encodings(c.key) = 2

\* C6 as stated: a span encoded twice that way is emitted exactly once.
C6_TwiceEncodedOnce ==
    Extracted =>
        \A c, d \in Pass2Candidates :
            EncodedTwice(c, d) => Cardinality(EmittedWithKey(c.key)) = 1

\* C6 amended: a span encoded twice that way is emitted exactly once when
\* the two insulators' own angles round to different half-degree buckets.
C6_TwiceEncodedOnceByBucket ==
    Extracted =>
        \A c, d \in Pass2Candidates :
            (/\ EncodedTwice(c, d)
             /\ InsBaseBucket(file[c.ins].angle) # InsBaseBucket(file[d.ins].angle))
                => Cardinality(EmittedWithKey(c.key)) = 1

\* C6 witness: a file with such a doubly encoded span, the two insulators'
\* own angles in different half-degree buckets, has been extracted.
C6_Witness ==
    /\ Extracted
    /\ \E c, d \in Pass2Candidates :
           /\ EncodedTwice(c, d)
           /\ InsBaseBucket(file[c.ins].angle) # InsBaseBucket(file[d.ins].angle)
           /\ Cardinality(EmittedWithKey(c.key)) = 1

\* C7: spans with the same dedup key on insulators that have the same base
\* angle as each other are all emitted, whatever was emitted before them.
C7_SameBaseAllKept ==
    Extracted =>
        \A c, d \in Pass2Candidates :
            (/\ c.id # d.id
             /\ c.key = d.key
             /\ ~IsNone(file[c.ins].angle)
             /\ file[c.ins].angle = file[d.ins].angle)
                => (EmittedOneToOne(c.id) /\ EmittedOneToOne(d.id))

----------------------------------------------------------------------------
(* Properties of the spatial index *)

Queried == phase = "queried"

\* the features the query scanned: the box hits, or all when there are none
Scanned ==
    LET hits == BoxHits(layer, qry.x1, qry.y1, qry.x2, qry.y2)
    IN  IF hits = {} THEN 0..(Len(layer.points) - 1) ELSE hits

\* squared minimum distance from query point 1 (2) to feature i's segments
Dist1Sq(i) == PointToSegmentsDist2(qry.x1, qry.y1, Segments(layer.points[i + 1]))

Dist2Sq(i) == PointToSegmentsDist2(qry.x2, qry.y2, Segments(layer.points[i + 1]))

\* the larger of the two
ScoreOf(i) == IF RatLess(Dist1Sq(i), Dist2Sq(i)) THEN Dist2Sq(i) ELSE Dist1Sq(i)

\* r is the square root of q, in tenths, rounded down
IsSqrtTenths(r, q) ==
    r >= 0 /\ r * r * q[2] <= 100 * q[1] /\ 100 * q[1] < (r + 1) * (r + 1) * q[2]

\* C8: the returned feature is a scanned candidate whose score, the larger of
\* its two squared distances, is the least of all candidates, and dist1 and
\* dist2 are the square roots of that feature's two squared distances.
C8_ReturnsLeastMaxScore ==
    (Queried /\ Len(layer.points) > 0) =>
        /\ ~IsNone(res.line_index)
        /\ Val(res.line_index) \in Scanned
        /\ \A j \in Scanned : ~RatLess(ScoreOf(j), ScoreOf(Val(res.line_index)))
        /\ ~IsNone(res.dist1_ft) /\ ~IsNone(res.dist2_ft)
        /\ IsSqrtTenths(Val(res.dist1_ft), Dist1Sq(Val(res.line_index)))
        /\ IsSqrtTenths(Val(res.dist2_ft), Dist2Sq(Val(res.line_index)))

\* C8 witness: the winner was loaded after a feature that lies nearer to one
\* query point than the winner's score but farther from the other.
C8_Witness ==
    /\ Queried
    /\ ~IsNone(res.line_index)
    /\ \E j \in Scanned :
           /\ j < Val(res.line_index)
           /\ RatLess(ScoreOf(Val(res.line_index)), ScoreOf(j))
           /\ RatLess(RatMin(Dist1Sq(j), Dist2Sq(j)), ScoreOf(Val(res.line_index)))
           /\ Val(res.dist1_ft) # Val(res.dist2_ft)

\* C9: among the candidates with the lowest score the first-loaded one is
\* returned, with the R-tree as with the linear filter, in whatever order
\* the lookup yields them.
C9_TieFirstLoaded ==
    (Queried /\ ~IsNone(res.line_index)) =>
        \A j \in Scanned :
            ~RatLess(ScoreOf(Val(res.line_index)), ScoreOf(j))
                => Val(res.line_index) <= j

----------------------------------------------------------------------------
(* Properties of the layer cache *)

\* the last call found _layer_cache empty
ColdCall == proc.last.outcome # "none" /\ ~proc.last.warm

\* C11 (as stated): a call that finds the in-memory cache empty and the
\* source shapefile in place either serves the layer from the disk cache,
\* and then the cache file existed and was not older than the source, or
\* loads it from the source, and does so whenever the cache file was missing
\* or older.
C11_CacheOrSource ==
    (ColdCall /\ proc.last.source) =>
        /\ proc.last.outcome \in {"disk", "source"}
        /\ proc.last.outcome = "disk" => proc.last.fresh
        /\ ~proc.last.fresh => proc.last.outcome = "source"

\* C11, the part the code keeps: the same, for every cache file that holds
\* at least one byte
C11_CacheOrSourceUnlessEmpty ==
    (ColdCall /\ proc.last.source /\ ~(proc.last.fresh /\ proc.last.kind = "empty")) =>
        /\ proc.last.outcome \in {"disk", "source"}
        /\ proc.last.outcome = "disk" => proc.last.fresh
        /\ ~proc.last.fresh => proc.last.outcome = "source"

\* C11, the next run: a call that loads from the source and writes the cache
\* leaves a cache file that is not older than the source and holds the layer
\* of the source's contents, and a call of a new process that finds such a
\* file and can read it serves the layer from it
C11_NextRunReuses ==
    [][GetLayer =>
          /\ (proc'.last.outcome = "source" /\ proc'.last.write = "ok") =>
                 /\ CacheFresh(disk')
                 /\ Val(disk'.pkl).kind = "layer"
                 /\ Val(disk'.pkl).ver = disk'.shp.ver
          /\ (IsNone(proc.layer_cache) /\ CacheFresh(disk)
                /\ Val(disk.pkl).kind = "layer" /\ proc'.last.exc = "none") =>
                 /\ proc'.last.outcome = "disk"
                 /\ Val(proc'.last.layer).ver = Val(disk.pkl).ver
                 /\ disk' = disk]_vars

\* a run loaded from the source, and the next run reused the cache it wrote
C11_Witness ==
    /\ proc.last.outcome = "disk"
    /\ ~proc.last.warm
    /\ proc.next_id = 3
    /\ Val(proc.last.layer).ver = 0

\* C12: once the write of the disk cache has failed in a process, the call
\* that loaded the layer from the source has returned it without raising,
\* the layer is in _layer_cache, and every call since has returned that layer
\* from memory.
C12_WriteFailureSwallowed ==
    proc.failed =>
        /\ ~IsNone(proc.layer_cache)
        /\ proc.layer_cache = proc.first
        /\ proc.last.layer = proc.layer_cache
        /\ proc.last.outcome = IF proc.last.warm THEN "mem" ELSE "source"
        /\ ~proc.last.warm => proc.last.write \in {"denied", "truncated", "empty"}

\* the write failed, and a later call of the process was answered from memory
C12_Witness ==
    /\ proc.failed
    /\ proc.last.warm
    /\ proc.last.outcome = "mem"
    /\ proc.last.layer = proc.first

\* C13: a call that follows a successful call of the same process returns
\* the layer object of that first call and reads neither the cache file nor
\* the source shapefile.
C13_SameObjectNoRead ==
    proc.last.warm =>
        /\ proc.last.outcome = "mem"
        /\ proc.last.layer = proc.first
        /\ proc.last.reads = {}

\* a later call made when both the source shapefile and the cache file are gone
C13_Witness ==
    /\ proc.last.warm
    /\ ~proc.last.source
    /\ proc.last.kind = "none"
    /\ proc.last.outcome = "mem"
    /\ ~IsNone(proc.last.layer)

----------------------------------------------------------------------------
(* Properties of the cap of the comm counts *)

Adjusted == phase = "adjust" /\ ~IsNone(run.adjusted)

RawTotal == SumOver(env.katapult_counts, comm_types)

RawPresent == {t \in comm_types : env.katapult_counts[t] > 0}

\* C14: with a bound below the raw comm total, the adjusted comm counts sum
\* to the bound, and each comm type of the raw counts keeps at least one
\* attachment when the bound is at least the number of those types.
C14_SumIsBound ==
    (Adjusted /\ ~IsNone(env.limit) /\ Val(env.limit) < RawTotal) =>
        /\ SumOver(Val(run.adjusted), comm_types) = Val(env.limit)
        /\ Val(env.limit) >= Cardinality(RawPresent) =>
               \A t \in RawPresent : Val(run.adjusted)[t] >= 1

\* CATV 3 and Fiber 2 under a bound of 2, and three types under a bound of 4
C14_Witness ==
    /\ Adjusted
    /\ \/ /\ env.katapult_counts["catv"] = 3
          /\ env.katapult_counts["fiber"] = 2
          /\ env.katapult_counts["telco"] = 0
          /\ env.limit = Some(2)
          /\ Val(run.adjusted)["catv"] = 1
          /\ Val(run.adjusted)["fiber"] = 1
       \/ /\ Cardinality(RawPresent) = 3
          /\ env.limit = Some(4)
          /\ RawTotal > 4
          /\ SumOver(Val(run.adjusted), comm_types) = 4

\* C15: the adjustment only removes: no comm count grows, no comm type that
\* the raw counts lack appears, the counts of the other types stay, and
\* without a bound all counts stay.
C15_OnlyRemoves ==
    Adjusted =>
        /\ \A t \in comm_types : Val(run.adjusted)[t] <= env.katapult_counts[t]
        /\ \A t \in comm_types \ RawPresent : Val(run.adjusted)[t] = 0
        /\ \A t \in TypeKeys \ comm_types :
               Val(run.adjusted)[t] = env.katapult_counts[t]
        /\ IsNone(env.limit) => Val(run.adjusted) = env.katapult_counts

\* a bound that removes attachments next to primary and neutral counts
C15_Witness ==
    /\ Adjusted
    /\ ~IsNone(env.limit)
    /\ Val(env.limit) < RawTotal
    /\ RawPresent # comm_types
    /\ env.katapult_counts["primary"] = 1
    /\ env.katapult_counts["neutral"] = 1
    /\ Val(run.adjusted) # env.katapult_counts

----------------------------------------------------------------------------
(* Properties of the Sections sheet *)

\* a row was added to the sheet
RowAdded == phase = "sections" /\ ~IsNone(run.added)

\* the row of the sheet that the added row repeats
Repeated == env.rows[Val(run.added).of]

\* C16 (as stated): a row added with the connection id and the labels of a
\* row of the sheet, in any column order, changes no survey count.
C16_RepeatedRowCountedOnce ==
    RowAdded => run.counts = run.before

\* C16, the part the code keeps: the added row changes no survey count when
\* its labels come in the order of the labels of the row it repeats
C16_RepeatedInOrderCountedOnce ==
    (RowAdded /\ SectionKey(Val(run.added).row) = SectionKey(Repeated)) =>
        run.counts = run.before

\* a repeated row whose two labels moved to other columns in the same order
C16_Witness ==
    /\ RowAdded
    /\ Val(run.added).row # Repeated
    /\ SectionKey(Val(run.added).row) = SectionKey(Repeated)
    /\ run.counts = run.before

----------------------------------------------------------------------------
(* Properties of the wire-spec comparator *)

NoDesignValues == [t \in {"Primary", "Neutral", "Secondary"} |-> ""]

\* the SCIDs of the endpoints of the connection of a log entry, lower-ordered
\* pole first
WireEnds(l) ==
    LET c == env.conns[l.ci]
    IN  PolePair(RefScid(env.nodes[c.node_id_1].scid),
                 RefScid(env.nodes[c.node_id_2].scid))

\* C17 (as stated): a connection consults the design file of its
\* lower-ordered pole if that pole has one, else the file of the
\* higher-ordered pole, and without either all its design values are empty.
C17_LowerPoleFile ==
    \A i \in DOMAIN run.log :
        LET l == run.log[i]
            ends == WireEnds(l)
        IN  IF ends[1] \in DOMAIN env.scid_to_pplx THEN l.pplx_path = Some(ends[1])
            ELSE IF ends[2] \in DOMAIN env.scid_to_pplx THEN l.pplx_path = Some(ends[2])
            ELSE IsNone(l.pplx_path) /\ l.pplx_vals = NoDesignValues

\* C17, the part the code keeps: a connection consults one file, that of one
\* of its poles, whenever a pole has one, and the lower-ordered pole's file
\* when only that pole has one or when the connection lists that pole first;
\* without either file all its design values are empty
C17_OnePoleFile ==
    \A i \in DOMAIN run.log :
        LET l == run.log[i]
            ends == WireEnds(l)
            c == env.conns[l.ci]
            with == {ends[1], ends[2]} \cap DOMAIN env.scid_to_pplx
        IN  /\ with = {} => IsNone(l.pplx_path) /\ l.pplx_vals = NoDesignValues
            /\ with # {} => ~IsNone(l.pplx_path) /\ Val(l.pplx_path) \in with
            /\ (ends[1] \in with /\ env.nodes[c.node_id_1].scid = ends[1]) =>
                   l.pplx_path = Some(ends[1])

\* a connection that lists 002 before 001 when only 001 has a design file
C17_Witness ==
    \E i \in DOMAIN run.log :
        LET l == run.log[i]
            c == env.conns[l.ci]
        IN  /\ env.nodes[c.node_id_1].scid = Scid(2, "")
            /\ DOMAIN env.scid_to_pplx = {Scid(1, "")}
            /\ l.pplx_path = Some(Scid(1, ""))
            /\ l.pplx_vals["Primary"] = "AAC"

\* the spans of the file that have the type and a length within 15 % of the
\* span distance
InTolerance(spans, t, span_in) ==
    {k \in DOMAIN spans :
        /\ spans[k].stype = t
        /\ ~IsNone(spans[k].len)
        /\ 100 * Abs(Val(spans[k].len) - span_in) <= 15 * span_in}

\* the first of them in the file among those closest to the span distance
ClosestSpan(spans, t, span_in) ==
    LET S == InTolerance(spans, t, span_in)
        D(k) == Abs(Val(spans[k].len) - span_in)
        best == {k \in S : \A j \in S : D(k) <= D(j)}
    IN  IF best = {} THEN None
        ELSE Some(spans[CHOOSE k \in best : \A j \in best : k <= j])

\* the design value by the rule of the closest span; without a span distance
\* no span is within tolerance
ClosestValue(l, t) ==
    LET entry == env.scid_to_pplx[Val(l.pplx_path)]
        sp == IF entry.broken \/ IsNone(l.span_in) THEN None
              ELSE ClosestSpan(entry.tree, t, Val(l.span_in))
    IN  IF IsNone(sp) THEN ""
        ELSE IF IsNone(Val(sp).conductor) THEN "" ELSE Val(Val(sp).conductor)

\* C18 (as stated): every design value of every connection that consults a
\* file is the spec string of the span of the type closest to the span
\* distance among those within 15 % of it, and empty without such a span.
C18_ClosestWithinTolerance ==
    \A i \in DOMAIN run.log :
        ~IsNone(run.log[i].pplx_path) =>
            \A t \in {"Primary", "Neutral", "Secondary"} :
                run.log[i].pplx_vals[t] = ClosestValue(run.log[i], t)

\* C18 (amended): the same for every connection that declares a span
\* distance.
C18_ClosestWhenDeclared ==
    \A i \in DOMAIN run.log :
        (~IsNone(run.log[i].pplx_path) /\ ~IsNone(run.log[i].span_in)) =>
            \A t \in {"Primary", "Neutral", "Secondary"} :
                run.log[i].pplx_vals[t] = ClosestValue(run.log[i], t)

\* a connection of 120 in: of the primaries of 110 and 130 in the first in
\* the file, the neutral 15 % off, and no secondary for the one of 139 in
C18_Witness ==
    \E i \in DOMAIN run.log :
        /\ run.log[i].span_in = Some(240)
        /\ run.log[i].pplx_vals["Primary"] = "CU"
        /\ run.log[i].pplx_vals["Neutral"] = "N138"
        /\ run.log[i].pplx_vals["Secondary"] = ""

----------------------------------------------------------------------------
(* Properties of the headless job *)

\* the spans pass has consulted the consumed map
Consuming == phase = "job" /\ run.touched # {}

\* C20: once a span has been consumed, every design file of the category
\* was loaded by the pool and is in the shared cache, no task was queued or
\* running at any consumption, only the main thread has touched the consumed
\* map, and no file was parsed after the preload: each was parsed once.
C20_LoadedBeforeConsumed ==
    Consuming =>
        /\ \A k \in DOMAIN env.files :
               /\ proc.tasks[k] = "done"
               /\ env.files[k] \in DOMAIN run.shared_pplx_cache
               /\ run.shared_pplx_cache[env.files[k]] = proc.results[k]
               /\ run.parses[env.files[k]] = 1
        /\ ~run.busy
        /\ run.touched = {"main"}
        /\ run.late = 0

\* two files loaded by the pool, then two connections consumed spans of one
C20_Witness ==
    /\ Consuming
    /\ Len(env.files) = 2
    /\ run.pc = "end"
    /\ \E f \in DOMAIN run.consumed : run.consumed[f] = 1..MaxSpans

\* C23 (as stated): when the shape directory, the projection file or the
\* shapefile is missing or cannot be read, the wire-spec comparison is empty,
\* the reconciler is still called and the change log is still written.
C23_JobGoesOn ==
    (phase = "job" /\ env.shape # "ok" /\ run.pc \in {"end", "written"}) =>
        /\ run.wire_spec_data = "empty"
        /\ run.spans_called

\* C23, the part the code keeps: the same when the directory or a file is
\* missing; and when a file cannot be read the comparison is empty
C23_JobGoesOnWhenMissing ==
    (phase = "job" /\ env.shape # "ok" /\ run.pc \in {"end", "written"}) =>
        /\ run.wire_spec_data = "empty"
        /\ ShapeOutcome(env.shape) # "raises" => run.spans_called

\* the change log was written after a job without projection file
C23_Witness ==
    /\ phase = "job"
    /\ env.shape = "no_prj"
    /\ run.pc = "written"
    /\ run.spans_called
    /\ run.touched # {}

----------------------------------------------------------------------------
(* Properties of the two passes *)

\* the design file the comparator selects for connection ci cannot be parsed
WireFileBroken(ci) ==
    LET c == env.conns[ci]
        b1 == env.nodes[c.node_id_1].scid
        b2 == env.nodes[c.node_id_2].scid
        q == IF b1 \in DOMAIN env.scid_to_pplx THEN b1 ELSE b2
    IN  q \in DOMAIN env.scid_to_pplx /\ env.scid_to_pplx[q].broken

\* the comparator: a connection whose file cannot be parsed has empty design
\* values, every other connection the values of its own file
WireBrokenIsEmpty ==
    \A i \in DOMAIN run.log :
        LET l == run.log[i]
        IN  IF WireFileBroken(l.ci) THEN l.pplx_vals = NoDesignValues
            ELSE ~IsNone(l.pplx_path) =>
                     /\ ~env.scid_to_pplx[Val(l.pplx_path)].broken
                     /\ \A t \in {"Primary", "Neutral", "Secondary"} :
                            l.pplx_vals[t] =
                                PplxVal(env.scid_to_pplx[Val(l.pplx_path)], t, l.span_in)

\* the reconciler: a connection whose file cannot be parsed has design count
\* 0 on every row and consumes nothing, every other connection counts the
\* spans it matched in its own file
ReconBrokenIsZero ==
    \A i \in DOMAIN run.rows :
        LET r == run.rows[i]
        IN  IF ~IsNone(r.g.pplx_path) /\ env.scid_to_pplx[Val(r.g.pplx_path)].broken
            THEN r.PPLX = 0 /\ r.g.matched = {} /\ ~r.g.loaded
            ELSE ~IsNone(r.g.pplx_path) =>
                     r.g.loaded /\ r.PPLX = Cardinality(MatchedOfType(r))

C22_WitnessWire ==
    /\ phase = "wire_done"
    /\ \E i \in DOMAIN run.log : WireFileBroken(run.log[i].ci)
    /\ \E i \in DOMAIN run.rows : run.rows[i].PPLX = ""

----------------------------------------------------------------------------
(* Properties of connections to unknown nodes                              *)

\* an endpoint of c is not a row of the Nodes sheet with coordinates
Unresolved(c, nodes) == c.node_id_1 \notin DOMAIN nodes \/ c.node_id_2 \notin DOMAIN nodes

\* the input has a connection to an unknown node
HasUnresolved == \E i \in DOMAIN env.conns : Unresolved(env.conns[i], env.nodes)

\* the input without the connections to unknown nodes
WithoutUnresolved(e) ==
    [e EXCEPT !.conns = SelectSeq(e.conns, LAMBDA c : ~Unresolved(c, e.nodes))]

\* the place of connection ci in the input without them
IndexWithout(e, ci) ==
    Len(SelectSeq(SubSeq(e.conns, 1, ci), LAMBDA c : ~Unresolved(c, e.nodes)))

\* the rows of a connection, whatever its place in the input
StripCi(rows) == [i \in DOMAIN rows |-> [rows[i] EXCEPT !.g.ci = 0]]

\* the reconciler: no row and no consumed span come from a connection to an
\* unknown node, and the next connection gets the rows it would get without
\* those connections in the input
ReconSkipsUnresolved ==
    /\ \A i \in DOMAIN run.rows : ~Unresolved(env.conns[run.rows[i].g.ci], env.nodes)
    /\ \A f \in DOMAIN run.consumed_span_indices :
           run.consumed_span_indices[f] =
               UNION {run.rows[i].g.matched :
                        i \in {j \in DOMAIN run.rows : run.rows[j].g.pplx_path = Some(f)}}
    /\ (phase = "loop" /\ run.ci < Len(env.conns) /\ HasUnresolved) =>
           LET c == env.conns[run.ci + 1]
               poa == PoaCounts(env.span_type_mapping, env.sections)
           IN  IF Unresolved(c, env.nodes) THEN SkipConnection(c, env.nodes, poa)
               ELSE ~SkipConnection(c, env.nodes, poa) =>
                        \A order \in CommOrders :
                            LET here == ConnectionStep(env, run.ci + 1,
                                                       run.consumed_span_indices, order)
                                alone == ConnectionStep(WithoutUnresolved(env),
                                                        IndexWithout(env, run.ci + 1),
                                                        run.consumed_span_indices, order)
                            IN  /\ StripCi(here.rows) = StripCi(alone.rows)
                                /\ here.consumed_span_indices = alone.consumed_span_indices

\* the comparator: no row comes from a connection to an unknown node, and the
\* next connection gets the rows it would get without those connections
WireSkipsUnresolved ==
    /\ \A i \in DOMAIN run.log : ~Unresolved(env.conns[run.log[i].ci], env.nodes)
    /\ (run.log = <<>>) => (run.rows = <<>>)
    /\ (phase = "wire" /\ run.ci < Len(env.conns) /\ HasUnresolved) =>
           LET c == env.conns[run.ci + 1]
           IN  IF Unresolved(c, env.nodes) THEN SkipWire(c, env.nodes)
               ELSE ~SkipWire(c, env.nodes) =>
                        WireStep(env, run.ci + 1).rows =
                            WireStep(WithoutUnresolved(env),
                                     IndexWithout(env, run.ci + 1)).rows

\* C24: a connection with an endpoint that is not a known node is passed
\* over by both passes: it gives no comparison row and no reconciliation
\* row, consumes no design span, and the other connections get the rows they
\* would get without it.
C24_UnresolvedIsSkipped ==
    /\ phase \in {"wire", "wire_done"} => WireSkipsUnresolved
    /\ phase \in {"loop", "done"} => ReconSkipsUnresolved

\* a finished reconciler run in which a connection to an unknown node, with
\* section rows and a span distance, came before a connection that matched a
\* design span
C24_Witness ==
    /\ phase = "done"
    /\ \E i \in DOMAIN env.conns : \E j \in DOMAIN run.rows :
           /\ Unresolved(env.conns[i], env.nodes)
           /\ env.conns[i].connection_id \in
                  DOMAIN PoaCounts(env.span_type_mapping, env.sections)
           /\ i < run.rows[j].g.ci
           /\ run.rows[j].PPLX > 0

\* a finished comparator run in which a connection to an unknown node came
\* before a connection that has rows
C24_WitnessWire ==
    /\ phase = "wire_done"
    /\ Len(env.conns) > 1
    /\ Unresolved(env.conns[1], env.nodes)
    /\ run.rows # <<>>

----------------------------------------------------------------------------
(* Properties of the order of the rows                                     *)

\* a pole id before another: a smaller leading integer, or a leading integer
\* against none
IdBefore(a, b) ==
    IF IsNone(a.lead) THEN FALSE
    ELSE IF IsNone(b.lead) THEN TRUE
    ELSE Val(a.lead) < Val(b.lead)

\* two pole ids of the same place in the order
IdLevel(a, b) == ~IdBefore(a, b) /\ ~IdBefore(b, a)

\* row r may stand right before row q
InOrder(r, q) ==
    IF IdBefore(r.Pole, q.Pole) THEN TRUE
    ELSE IF ~IdLevel(r.Pole, q.Pole) THEN FALSE
    ELSE IF IdBefore(r.To_Pole, q.To_Pole) THEN TRUE
    ELSE IF ~IdLevel(r.To_Pole, q.To_Pole) THEN FALSE
    ELSE IF r.Span_Type # q.Span_Type
    THEN r.Span_Type = "Fiber" /\ q.Span_Type = "Primary"
    ELSE r.g.pos < q.g.pos

\* C25: the returned rows are the rows before the sort, ordered by the
\* leading integer of the pole id, then of the to-pole id, then by the span
\* type name, ids without leading integer last, and rows equal on all three
\* keys in the order they had before.
C25_RowsOrdered ==
    phase = "sorted" =>
        /\ Len(run.rows) = Len(env.rows)
        /\ {run.rows[i] : i \in DOMAIN run.rows} = {env.rows[i] : i \in DOMAIN env.rows}
        /\ \A i \in 1..(Len(run.rows) - 1) : InOrder(run.rows[i], run.rows[i + 1])

\* a sorted list in which a row without leading integer, first before the
\* sort, stands last, after two rows of equal keys in their former order
C25_Witness ==
    /\ phase = "sorted"
    /\ Len(run.rows) = 3
    /\ IsNone(env.rows[1].Pole.lead)
    /\ run.rows[3] = env.rows[1]
    /\ run.rows[1] = env.rows[2]
    /\ run.rows[2] = env.rows[3]
    /\ run.rows[1].Pole.lead = run.rows[2].Pole.lead
    /\ run.rows[1].Pole # run.rows[2].Pole
    /\ run.rows[1].To_Pole = run.rows[2].To_Pole
    /\ run.rows[1].Span_Type = run.rows[2].Span_Type

----------------------------------------------------------------------------
(* Properties of the design counts                                         *)

\* the match predicate with M as the test of the two bearings
Matches(M(_, _), t, length_in, target_angle) ==
    /\ LengthOk(t.len, length_in, LENGTH_TOLERANCE_IN)
    /\ IF ~IsNone(target_angle) /\ ~IsNone(t.angle)
       THEN M(t, target_angle)
       ELSE Lower(t.stype) \notin comm_types

\* the spans of type key k that were unconsumed when the connection of row r
\* was processed and satisfy the match predicate
OpenMatching(M(_, _), r, k) ==
    {x \in DOMAIN TriplesOf(r) \ r.g.before :
        /\ Lower(TriplesOf(r)[x].stype) = k
        /\ Matches(M, TriplesOf(r)[x], r.g.length_in, r.g.target_angle)}

\* every row of a connection that read a design file reports the number of
\* those spans, all of them are consumed, and each type that has one has a
\* row of the connection
CountRule(M(_, _)) ==
    \A i \in DOMAIN run.rows :
        LET r == run.rows[i]
        IN  r.g.loaded =>
                /\ r.PPLX = Cardinality(OpenMatching(M, r, Lower(r.Span_Type)))
                /\ \A k \in TypeKeys :
                       LET S == OpenMatching(M, r, k)
                       IN  S # {} =>
                               /\ S \subseteq run.consumed_span_indices[Val(r.g.pplx_path)]
                               /\ \E j \in DOMAIN run.rows :
                                      /\ run.rows[j].g.ci = r.g.ci
                                      /\ Lower(run.rows[j].Span_Type) = k
                                      /\ run.rows[j].PPLX = Cardinality(S)

\* C26 (as stated): the design count of a row is the number of spans of its
\* type in the consulted file that were unconsumed when its connection was
\* processed and satisfy the match predicate (length within tolerance and,
\* with both bearings, at most 10 degrees between the directions); all of
\* them are consumed, and a type with such a span has a row.
C26_CountIsMatching == CountRule(BearingMatches)

\* C26 with the angle test of _count_and_consume as the test of the bearings
C26_CountIsMatchingByCodeTest == CountRule(BearingPasses)

\* a row with survey count 0 whose design count is the number of spans that
\* satisfy the match predicate, one or more
C26_Witness ==
    /\ phase = "done"
    /\ \E i \in DOMAIN run.rows :
           /\ run.rows[i].Katapult = 0
           /\ run.rows[i].PPLX > 0
           /\ run.rows[i].PPLX =
                  Cardinality(OpenMatching(BearingMatches, run.rows[i],
                                           Lower(run.rows[i].Span_Type)))

----------------------------------------------------------------------------
(* Properties of the spans a connection leaves alone                       *)

\* the rows that the step added
NewRows == SubSeq(run'.rows, Len(run.rows) + 1, Len(run'.rows))

\* the spans of file f that the step consumed
NewlyConsumed(f) == run'.consumed_span_indices[f] \ run.consumed_span_indices[f]

\* a step of the loop consumes only spans of the file it consulted that it
\* matched: spans within the length tolerance that are power spans or have a
\* bearing to compare with the target bearing
LeavesTheRest ==
    (phase = "loop" /\ phase' = "loop" /\ run'.ci = run.ci + 1) =>
        \A f \in DOMAIN run.consumed_span_indices :
            \A x \in NewlyConsumed(f) :
                /\ NewRows # <<>>
                /\ NewRows[1].g.ci = run'.ci
                /\ NewRows[1].g.pplx_path = Some(f)
                /\ x \in NewRows[1].g.matched
                /\ LET t == TriplesOf(NewRows[1])[x]
                       g == NewRows[1].g
                   IN  /\ LengthOk(t.len, g.length_in, LENGTH_TOLERANCE_IN)
                       /\ (IsNone(t.angle) \/ IsNone(g.target_angle)) =>
                              Lower(t.stype) \notin comm_types

\* C27: processing a connection leaves unconsumed every span it did not
\* match: the spans outside the length tolerance, those of the right bearing
\* among them, the communication spans without bearing information, and all
\* spans of the design files it did not consult.
C27_UnmatchedStayAvailable == [][LeavesTheRest]_vars

\* at the end of a run a row has the verdict Length and the span of the right
\* bearing and the wrong length behind it is unconsumed
C27_Witness ==
    /\ phase = "done"
    /\ \E i \in DOMAIN run.rows :
           LET r == run.rows[i]
           IN  /\ r.g.loaded
               /\ r.QC = "Length"
               /\ \E x \in DOMAIN TriplesOf(r) \ run.consumed_span_indices[Val(r.g.pplx_path)] :
                      /\ Lower(TriplesOf(r)[x].stype) = Lower(r.Span_Type)
                      /\ ~LengthOk(TriplesOf(r)[x].len, r.g.length_in, LENGTH_TOLERANCE_IN)
                      /\ BearingPasses(TriplesOf(r)[x], r.g.target_angle)

\* at the end of a run a connection has consumed a span of its design file
\* and every span of the other design file is unconsumed
C27_WitnessOtherFile ==
    /\ phase = "done"
    /\ \E i \in DOMAIN run.rows :
           LET r == run.rows[i]
           IN  /\ r.g.matched # {}
               /\ \E f \in DOMAIN env.scid_to_pplx :
                      /\ Some(f) # r.g.pplx_path
                      /\ ~env.scid_to_pplx[f].broken
                      /\ ExtractTriples(env.scid_to_pplx[f].tree) # <<>>
                      /\ run.consumed_span_indices[f] = {}

----------------------------------------------------------------------------
(* Properties of the loop of the cap                                       *)

\* a comm type of the loop whose survey count is above its adjusted count
HasSpare == \E i \in DOMAIN run.types_sorted :
                run.raw_comm[run.types_sorted[i]] > run.adj_comm[run.types_sorted[i]]

\* while attachments remain some type can take one, no round over the types
\* hands out nothing, and the loop leaves the counts of the cap
SpareWhileRemaining ==
    /\ (phase = "while" /\ run.remaining > 0) =>
           /\ HasSpare
           /\ run.idle < Len(run.types_sorted)
    /\ phase = "capped" =>
           \A t \in comm_types :
               run.adj_comm[t] = AdjustComm(env.katapult_counts, env.limit, env.order)[t]

\* C28: the loop that hands out the remaining attachments ends for every
\* map of survey counts and every bound: while attachments remain some comm
\* type has a survey count above its adjusted count, so every round over the
\* types hands out at least one.
C28_LoopEnds == []SpareWhileRemaining /\ ((phase = "while") ~> (phase = "capped"))

\* the loop has gone once round the types and on: it passed a type without
\* spare, and it handed out an attachment after that
C28_Witness ==
    /\ phase = "capped"
    /\ run.idx > Len(run.types_sorted)
    /\ run.remaining = 0
    /\ \E t \in comm_types : run.adj_comm[t] < run.raw_comm[t]
    /\ \E i \in DOMAIN run.types_sorted : run.raw_comm[run.types_sorted[i]] = 1

----------------------------------------------------------------------------
(* Properties of the index against the scan of all features                *)

\* feature i lies within the search margin of both query points
WithinMargin(i) ==
    /\ ~RatLess(<<SEARCH_MARGIN * SEARCH_MARGIN, 1>>, Dist1Sq(i))
    /\ ~RatLess(<<SEARCH_MARGIN * SEARCH_MARGIN, 1>>, Dist2Sq(i))

\* C29: when a feature lies within the search margin of both query points,
\* the feature that the indexed query returns has the score of the best
\* feature of the scan over all features.
C29_IndexAgreesWithScan ==
    (phase = "scanned" /\ \E i \in 0..(Len(layer.points) - 1) : WithinMargin(i)) =>
        /\ ~IsNone(res.line_index)
        /\ ~IsNone(run.i)
        /\ ~RatLess(ScoreOf(Val(res.line_index)), run.score)
        /\ ~RatLess(run.score, ScoreOf(Val(res.line_index)))

\* a feature lies within the margin of both points and the index passed over
\* another feature, which the scan looked at
C29_Witness ==
    /\ phase = "scanned"
    /\ \E i \in 0..(Len(layer.points) - 1) : WithinMargin(i)
    /\ Scanned # 0..(Len(layer.points) - 1)
    /\ ~IsNone(run.i)

----------------------------------------------------------------------------
(* Properties of the files of a category                                   *)

\* the files of the results taken so far that have status st
TakenWith(st) ==
    {i \in 1..Len(run.consumed) : env.status[env.files[run.consumed[i]]] = st}

\* the files with status "success" among the first n, in input order
RECURSIVE SuccessesUpTo(_)
SuccessesUpTo(n) ==
    IF n = 0 THEN <<>>
    ELSE SuccessesUpTo(n - 1)
         \o (IF env.status[env.files[n]] = "success" THEN <<env.files[n]>> ELSE <<>>)

====
